---- MODULE Spec2Model ----
(***************************************************************************)
(* A model of the cTrader OHLC market-data layer of Trading-Test:          *)
(* the payload normaliser (build_bar, parse_timestamp), the REST history   *)
(* fetch (fetch_ohlc_data) and the streaming session (stream_ohlc_data) of *)
(* src/app/services/market_data and of its single-file predecessor         *)
(* src/app/services/ctrader_market_data.py, with the routes that call them *)
(* (routes/ohlc.py) and the OAuth callback (routes/redirect.py).           *)
(*                                                                         *)
(* Numbers.  TLC's integers are 32 bits wide and the code compares         *)
(* timestamps with 1e12, so every JSON number X is represented by the      *)
(* integer X / 1000 (numbers are "in thousands").  An instant is kept in   *)
(* whole seconds since the epoch.                                          *)
(***************************************************************************)
EXTENDS Integers, Sequences, FiniteSets, TLC

(***************************************************************************)
(* Bounds of the model.                                                    *)
(***************************************************************************)
\* Number of distinct bar instants the upstream can deliver.
MaxTs == 3
\* Frames one session receives over all its connections.
MaxFrames == 2
\* Consecutive backoff waits without a successful connection in between.
MaxRetries == 7
\* Length of the short history responses that are enumerated exhaustively.
MaxHist == 1
\* The first bar instant, in thousands of seconds since the epoch.
T0K == 1700000

(***************************************************************************)
(* JSON values.  A value is a record [fmt, t, v]: t is the Python type,    *)
(* v the content, fmt the flavour of a string.                             *)
(***************************************************************************)
None == [fmt |-> "-", t |-> "none", v |-> 0]

Num(x) == [fmt |-> "-", t |-> "num", v |-> x]

\* A string.  fmt tells what the text is:
\*   "Z", "+00:00", "+01:00", "naive": an ISO-8601 date-time whose local
\*       reading is v seconds since the epoch, with that suffix;
\*   "numeric": the decimal text of the number v (in thousands);
\*   "empty": the empty string;
\*   anything else: that text itself ("ping", "EURUSD", "bad", ...).
Str(f, x) == [fmt |-> f, t |-> "str", v |-> x]

\* A JSON object: v is the function from its keys to their values.
Map(f) == [fmt |-> "-", t |-> "map", v |-> f]

\* A JSON array: v is the sequence of its items.
List(s) == [fmt |-> "-", t |-> "list", v |-> s]

EmptyMap == [k \in {} |-> None]

\* dict.get(key): None when the key is absent.
Get(m, k) == IF k \in DOMAIN m THEN m[k] ELSE None

IsNone(x) == x.t = "none"

\* Python truthiness of a JSON value.
Truthy(x) ==
    CASE x.t = "none" -> FALSE
      [] x.t = "num" -> x.v # 0
      [] x.t = "str" -> x.fmt # "empty"
      [] x.t = "map" -> DOMAIN x.v # {}
      [] x.t = "list" -> Len(x.v) > 0
      [] OTHER -> TRUE

\* Python's "a or b".
Or(a, b) == IF Truthy(a) THEN a ELSE b

(***************************************************************************)
(* Timestamps.  A datetime is [fmt, t, v] with t = "datetime", v its local *)
(* reading in seconds and fmt its UTC offset; all datetimes of the program *)
(* are timezone-aware.                                                     *)
(***************************************************************************)
DateTime(off, local) == [fmt |-> off, t |-> "datetime", v |-> local]

OffsetSeconds(off) == IF off = "+01:00" THEN 3600 ELSE 0

\* The instant a datetime denotes: what Python compares aware datetimes by.
Instant(dt) == dt.v - OffsetSeconds(dt.fmt)

\* Results of a call that may raise: exc is "none", "CTraderMarketDataError",
\* "ValueError" or "Exception" (any exception outside the first two).
Ok(x) == [exc |-> "none", val |-> x]

Raise(e) == [exc |-> e, val |-> None]

\* Numbers above this are epoch milliseconds (1e12, in thousands).
MsThresholdK == 1000000000

\* datetime.fromtimestamp rejects seconds beyond year 9999 (253402300800 s,
\* in thousands, rounded down).
MaxEpochK == 253402300

\* A number a thousand times as large as Num(x): v is in millions.
Big(x) == [fmt |-> "e6", t |-> "num", v |-> x]

\* A parser whose millisecond reading starts at 1e12 itself.
ParseThresholdInclusive(value) ==
    CASE value.t = "num" /\ value.fmt = "e6" ->
            IF value.v >= MsThresholdK \div 1000
            THEN IF value.v > MaxEpochK
                 THEN Raise("Exception")
                 ELSE Ok(DateTime("+00:00", 1000 * value.v))
            ELSE IF value.v > MaxEpochK \div 1000
                 THEN Raise("Exception")
                 ELSE Ok(DateTime("+00:00", 1000000 * value.v))
      [] value.t = "num" /\ value.fmt # "e6" ->
            IF value.v >= MsThresholdK
            THEN Ok(DateTime("+00:00", value.v))
            ELSE IF value.v > MaxEpochK
                 THEN Raise("Exception")
                 ELSE Ok(DateTime("+00:00", 1000 * value.v))
      [] value.t = "str" ->
            CASE value.fmt = "Z" -> Ok(DateTime("+00:00", value.v))
              [] value.fmt = "naive" -> Ok(DateTime("+00:00", value.v))
              [] value.fmt \in {"+00:00", "+01:00"} -> Ok(DateTime(value.fmt, value.v))
              [] OTHER -> Raise("CTraderMarketDataError")
      [] OTHER -> Raise("CTraderMarketDataError")

\* A number is read as milliseconds above 1e12 and as seconds otherwise;
\* datetime.fromtimestamp raises for seconds beyond year 9999.
parse_timestamp(value) ==
    CASE value.t = "num" /\ value.fmt = "e6" ->
            IF value.v > MsThresholdK \div 1000
            THEN IF value.v > MaxEpochK
                 THEN Raise("Exception")
                 ELSE Ok(DateTime("+00:00", 1000 * value.v))
            ELSE IF value.v > MaxEpochK \div 1000
                 THEN Raise("Exception")
                 ELSE Ok(DateTime("+00:00", 1000000 * value.v))
      [] value.t = "num" /\ value.fmt # "e6" ->
            IF value.v > MsThresholdK
            THEN Ok(DateTime("+00:00", value.v))
            ELSE IF value.v > MaxEpochK
                 THEN Raise("Exception")
                 ELSE Ok(DateTime("+00:00", 1000 * value.v))
      [] value.t = "str" ->
            CASE value.fmt = "Z" -> Ok(DateTime("+00:00", value.v))
              [] value.fmt = "naive" -> Ok(DateTime("+00:00", value.v))
              [] value.fmt \in {"+00:00", "+01:00"} -> Ok(DateTime(value.fmt, value.v))
              [] OTHER -> Raise("CTraderMarketDataError")
      [] OTHER -> Raise("CTraderMarketDataError")

\* format_timestamp without the conversion to UTC: the local reading is
\* written with the suffix Z.
FormatLocal(ts) == Str("Z", ts.v)

format_timestamp(ts) == Str("Z", Instant(ts))

_parse_float(mapping, key) ==
    LET value == Get(mapping, key)
    IN  CASE value.t = "none" -> None
          [] value.t = "num" -> value
          [] value.t = "str" /\ value.fmt = "numeric" -> Num(value.v)
          [] OTHER -> None

OHLCBar(ts, o, h, l, c, vol) ==
    [timestamp |-> ts, open |-> o, high |-> h, low |-> l, close |-> c, volume |-> vol]

NoBar == OHLCBar(None, None, None, None, None, None)

\* A normalisation that refuses a volume it cannot read.
BuildBarStrictVolume(raw) ==
    LET timestamp_value ==
            Or(Get(raw, "timestamp"),
            Or(Get(raw, "time"),
            Or(Get(raw, "openTimestamp"),
            Or(Get(raw, "startTimestamp"), Get(raw, "utcTimestamp")))))
        timestamp == parse_timestamp(timestamp_value)
        open_ == Or(_parse_float(raw, "open"), _parse_float(raw, "openPrice"))
        high == Or(_parse_float(raw, "high"), _parse_float(raw, "highPrice"))
        low == Or(_parse_float(raw, "low"), _parse_float(raw, "lowPrice"))
        close == Or(_parse_float(raw, "close"), _parse_float(raw, "closePrice"))
    IN  IF IsNone(timestamp_value) THEN Raise("CTraderMarketDataError")
        ELSE IF timestamp.exc # "none" THEN Raise(timestamp.exc)
        ELSE IF IsNone(open_) \/ IsNone(high) \/ IsNone(low) \/ IsNone(close)
             THEN Raise("CTraderMarketDataError")
        ELSE IF "volume" \in DOMAIN raw /\ IsNone(_parse_float(raw, "volume"))
             THEN Raise("CTraderMarketDataError")
        ELSE Ok(OHLCBar(timestamp.val, open_, high, low, close, _parse_float(raw, "volume")))

build_bar(raw) ==
    LET timestamp_value ==
            Or(Get(raw, "timestamp"),
            Or(Get(raw, "time"),
            Or(Get(raw, "openTimestamp"),
            Or(Get(raw, "startTimestamp"), Get(raw, "utcTimestamp")))))
        timestamp == parse_timestamp(timestamp_value)
        open_ == Or(_parse_float(raw, "open"), _parse_float(raw, "openPrice"))
        high == Or(_parse_float(raw, "high"), _parse_float(raw, "highPrice"))
        low == Or(_parse_float(raw, "low"), _parse_float(raw, "lowPrice"))
        close == Or(_parse_float(raw, "close"), _parse_float(raw, "closePrice"))
    IN  IF IsNone(timestamp_value) THEN Raise("CTraderMarketDataError")
        ELSE IF timestamp.exc # "none" THEN Raise(timestamp.exc)
        ELSE IF IsNone(open_) \/ IsNone(high) \/ IsNone(low) \/ IsNone(close)
             THEN Raise("CTraderMarketDataError")
        ELSE Ok(OHLCBar(timestamp.val, open_, high, low, close, _parse_float(raw, "volume")))

looks_like_trendbar(candidate) ==
    \/ {"open", "high", "low", "close"} \subseteq DOMAIN candidate
    \/ {"openPrice", "highPrice", "lowPrice", "closePrice"} \subseteq DOMAIN candidate

IsMapping(x) == x.t = "map"

\* [item for item in value if isinstance(item, Mapping)], as raw mappings.
OnlyMappings(s) ==
    LET maps == SelectSeq(s, IsMapping)
    IN  [i \in 1..Len(maps) |-> maps[i].v]

ensure_iterable(value) ==
    CASE value.t = "none" -> <<>>
      [] value.t = "map" -> <<value.v>>
      [] value.t = "list" -> OnlyMappings(value.v)
      [] value.t = "str" -> <<>>
      [] OTHER -> <<>>

(***************************************************************************)
(* The REST history fetch.                                                 *)
(***************************************************************************)
\* What the upstream answers to one GET .../trendbars:
\*   net = "error": requests raised RequestException;
\*   json = FALSE: response.json() raised ValueError;
\*   otherwise body is the decoded JSON value.
Response(net, status, json, body) ==
    [net |-> net, status |-> status, json |-> json, body |-> body]

RECURSIVE FirstListKey(_, _)
\* The first of keys whose value in payload is a list, or "" when none is.
FirstListKey(payload, keys) ==
    IF keys = <<>> THEN ""
    ELSE IF Get(payload, Head(keys)).t = "list" THEN Head(keys)
    ELSE FirstListKey(payload, Tail(keys))

\* An extraction that gives no bars where it finds none.
ExtractOrEmpty(payload) ==
    CASE payload.t = "map" ->
            LET key == FirstListKey(payload.v, <<"data", "trendbars", "bars", "items">>)
            IN  IF key # "" THEN Ok(OnlyMappings(payload.v[key].v))
                ELSE IF Get(payload.v, "trendbar").t = "list"
                     THEN Ok(OnlyMappings(payload.v["trendbar"].v))
                ELSE IF looks_like_trendbar(payload.v) THEN Ok(<<payload.v>>)
                ELSE Ok(<<>>)
      [] payload.t = "list" -> Ok(OnlyMappings(payload.v))
      [] OTHER -> Ok(<<>>)

_extract_trendbars(payload) ==
    CASE payload.t = "map" ->
            LET key == FirstListKey(payload.v, <<"data", "trendbars", "bars", "items">>)
            IN  IF key # "" THEN Ok(OnlyMappings(payload.v[key].v))
                ELSE IF Get(payload.v, "trendbar").t = "list"
                     THEN Ok(OnlyMappings(payload.v["trendbar"].v))
                ELSE IF looks_like_trendbar(payload.v) THEN Ok(<<payload.v>>)
                ELSE Raise("CTraderMarketDataError")
      [] payload.t = "list" -> Ok(OnlyMappings(payload.v))
      [] OTHER -> Raise("CTraderMarketDataError")

\* [build_bar(obj) for obj in raw_bars]: the bars, or the first exception.
BuildBars(raw_bars) ==
    LET built == [i \in 1..Len(raw_bars) |-> build_bar(raw_bars[i])]
        failed == {i \in 1..Len(raw_bars) : built[i].exc # "none"}
    IN  IF failed # {}
        THEN Raise(built[CHOOSE i \in failed : \A j \in failed : i <= j].exc)
        ELSE Ok([i \in 1..Len(raw_bars) |-> built[i].val])

\* The bars in the order the upstream sent them (no sort).
KeepOrder(bars) == bars

\* bars.sort(key=lambda bar: bar.timestamp): ascending and stable.  The bar
\* at index i moves behind the earlier bars and behind the bars of the same
\* instant that precede it.
SortBars(bars) ==
    LET n == Len(bars)
        key == SubSeq([i \in 1..n |-> Instant(bars[i].timestamp)], 1, n)
        rank == SubSeq([i \in 1..n |->
                           1 + Cardinality({j \in 1..n : key[j] < key[i]})
                             + Cardinality({j \in 1..(i - 1) : key[j] = key[i]})], 1, n)
    IN  [p \in 1..n |-> bars[CHOOSE i \in 1..n : rank[i] = p]]

\* The bars without the cut to the newest limit.
KeepAll(bars, limit) == bars

\* bars[:limit]: the cut at the wrong end.
FirstN(bars, limit) ==
    IF Len(bars) <= limit THEN bars ELSE SubSeq(bars, 1, limit)

\* bars[-limit:] for limit > 0.
LastN(bars, limit) ==
    IF Len(bars) <= limit THEN bars ELSE SubSeq(bars, Len(bars) - limit + 1, Len(bars))

fetch_ohlc_data(access_token, symbol, limit, response) ==
    IF access_token = "" \/ symbol = "" \/ limit <= 0 THEN Raise("ValueError")
    ELSE IF response.net = "error" THEN Raise("CTraderMarketDataError")
    ELSE IF response.status >= 400 THEN Raise("CTraderMarketDataError")
    ELSE IF ~response.json THEN Raise("CTraderMarketDataError")
    ELSE LET raw_bars == _extract_trendbars(response.body)
         IN  IF raw_bars.exc # "none" THEN Raise(raw_bars.exc)
             ELSE LET bars == BuildBars(raw_bars.val)
                  IN  IF bars.exc # "none" THEN Raise(bars.exc)
                      ELSE Ok(LastN(SortBars(bars.val), limit))

(***************************************************************************)
(* The streaming session: the frame handling of                            *)
(* _consume_trendbar_messages and the frames the session sends.            *)
(***************************************************************************)
\* One raw WebSocket message: kind is "text", "bytes" or "mapping" (an
\* already decoded object); json tells what a
\* text decodes to ("object", "array", "invalid"); msg is the decoded object.
RawFrame(kind, json, msg) == [kind |-> kind, json |-> json, msg |-> msg]

\* A decoder that answers an empty object where _decode_message raises.
DecodeOrEmpty(raw) ==
    IF raw.kind \in {"mapping", "text"} /\ raw.json = "object" THEN Ok(Map(raw.msg))
    ELSE Ok(Map(EmptyMap))

_decode_message(raw) ==
    IF raw.kind = "mapping" THEN Ok(Map(raw.msg))
    ELSE IF raw.kind = "text"
    THEN IF raw.json = "invalid" THEN Raise("CTraderMarketDataError")
         ELSE IF raw.json = "object" THEN Ok(Map(raw.msg))
         ELSE Raise("CTraderMarketDataError")
    ELSE Raise("CTraderMarketDataError")

\* The classification without the branch for control acknowledgements.
MessageClassNoControl(message) ==
    LET msg_type == Get(message, "type")
    IN  IF msg_type.t \in {"list", "map"} THEN "TypeError"
        ELSE IF msg_type.t = "str" /\ msg_type.fmt \in {"ping", "heartbeat"} THEN "ping"
        ELSE "data"

\* How _consume_trendbar_messages classifies a decoded message by its type:
\* "TypeError" when the type is unhashable, "ping", "control" or "data".
MessageClass(message) ==
    LET msg_type == Get(message, "type")
    IN  IF msg_type.t \in {"list", "map"} THEN "TypeError"
        ELSE IF msg_type.t = "str" /\ msg_type.fmt \in {"ping", "heartbeat"} THEN "ping"
        ELSE IF msg_type.t = "str"
                /\ msg_type.fmt \in {"authenticated", "subscriptionConfirmed", "info"}
             THEN "control"
        ELSE "data"

\* The bar payloads of a data message: found is FALSE when the message is
\* ignored (no payload, or a payload that bears no bars).
BarsPayload(message) ==
    LET p0 == Get(message, "payload")
        payload == IF IsNone(p0) THEN Get(message, "data") ELSE p0
    IN  IF IsNone(payload) THEN [found |-> FALSE, bars |-> <<>>]
        ELSE IF payload.t = "map" /\ "trendbars" \in DOMAIN payload.v
             THEN [found |-> TRUE, bars |-> ensure_iterable(Get(payload.v, "trendbars"))]
        ELSE IF payload.t = "map" /\ "trendbar" \in DOMAIN payload.v
             THEN [found |-> TRUE, bars |-> ensure_iterable(Get(payload.v, "trendbar"))]
        ELSE IF payload.t = "map" /\ looks_like_trendbar(payload.v)
             THEN [found |-> TRUE, bars |-> <<payload.v>>]
        ELSE [found |-> FALSE, bars |-> <<>>]

\* A pong that never carries a payload.
PongBare(message) == ("type" :> Str("pong", 0))

\* The response _respond_to_ping sends.
PongResponse(message) ==
    IF "payload" \in DOMAIN message
    THEN ("type" :> Str("pong", 0)) @@ ("payload" :> message["payload"])
    ELSE ("type" :> Str("pong", 0))

AuthMessage(token) ==
    ("type" :> Str("authenticate", 0))
    @@ ("payload" :> Map(("accessToken" :> Str(token, 0))
                         @@ ("application" :> Str("connect", 0))))

SubscribeMessage(sym, watermark) ==
    LET base == ("accountId" :> Num(1)) @@ ("symbol" :> Str(sym, 0))
                @@ ("timeframe" :> Str("M1", 0))
    IN  ("type" :> Str("subscribeTrendbars", 0))
        @@ ("payload" :> Map(IF watermark.t = "datetime"
                             THEN base @@ ("from" :> format_timestamp(watermark))
                             ELSE base))

\* The watermark test with "<" in place of "<=": a bar at the watermark passes.
NotNewerStrict(watermark, bar) ==
    watermark.t = "datetime" /\ Instant(bar.timestamp) < Instant(watermark)

\* The watermark test of the streaming loop: TRUE when the bar is skipped.
NotNewer(watermark, bar) ==
    watermark.t = "datetime" /\ Instant(bar.timestamp) <= Instant(watermark)

\* The except clauses without the one for CTraderMarketDataError.
CaughtTransportOnly(variant, exc) ==
    exc \in {"ConnectionClosed", "OSError", "TimeoutError"}

\* Whether the except clauses of the session loop catch the exception.
Caught(variant, exc) ==
    \/ exc \in {"ConnectionClosed", "OSError", "TimeoutError", "CTraderMarketDataError"}
    \/ variant = "streaming"

\* The number of history bars the session asks for.
HistoryLimit == 100

\* The ceiling of the reconnect delay, in seconds.
_MAX_RECONNECT_DELAY == 30

Min(a, b) == IF a <= b THEN a ELSE b

(***************************************************************************)
(* The inputs of the model: what the upstream can answer and deliver.      *)
(***************************************************************************)
Prices ==
    ("open" :> Num(10)) @@ ("high" :> Num(12)) @@ ("low" :> Num(9)) @@ ("close" :> Num(11))

AltPrices ==
    ("openPrice" :> Num(10)) @@ ("highPrice" :> Num(12)) @@ ("lowPrice" :> Num(9))
    @@ ("closePrice" :> Num(11))

\* The bar of instant k, its timestamp in epoch seconds.
SecBar(k) == ("timestamp" :> Num(T0K + k)) @@ Prices

\* The bar of instant k, its timestamp in epoch milliseconds, alias names.
MsBar(k) == ("utcTimestamp" :> Num(1000 * (T0K + k))) @@ AltPrices @@ ("volume" :> Num(5))

\* The bar of instant k, its timestamp an ISO-8601 string with suffix f.
IsoBar(k, f) == ("time" :> Str(f, 1000 * (T0K + k) + OffsetSeconds(f))) @@ Prices

NoTimestampBar == Prices

NoCloseBar ==
    ("timestamp" :> Num(T0K + 1)) @@ ("open" :> Num(10)) @@ ("high" :> Num(12))
    @@ ("low" :> Num(9))

BadTimestampBar == ("timestamp" :> Str("bad", 0)) @@ Prices

ListTimestampBar == ("timestamp" :> List(<<Num(T0K + 1)>>)) @@ Prices

ZeroOpenBar == ("timestamp" :> Num(T0K + 1)) @@ ("open" :> Num(0)) @@ Prices

OutOfRangeBar == ("timestamp" :> Num(MaxEpochK + 1)) @@ Prices

\* The instant, in seconds, of bar k.
InstantOf(k) == 1000 * (T0K + k)

\* A sequence of raw mappings as a JSON array of objects.
MapList(raws) == [i \in 1..Len(raws) |-> Map(raws[i])]

TextFrame(msg) == RawFrame("text", "object", msg)

\* A data frame whose payload holds the raw bars under "trendbars".
TrendbarsFrame(raws) ==
    TextFrame(("type" :> Str("trendbars", 0))
              @@ ("payload" :> Map(("trendbars" :> List(MapList(raws))))))

\* A frame of the given type with the given payload.
TypedFrame(type, payload) ==
    TextFrame(("type" :> Str(type, 0)) @@ ("payload" :> payload))

ControlFrames ==
    << TextFrame(("type" :> Str("ping", 0))),
       TypedFrame("ping", Num(7)),
       TypedFrame("ping", None),
       TypedFrame("heartbeat", Map(("trendbars" :> List(MapList(<<SecBar(MaxTs)>>))))),
       TypedFrame("heartbeat", Map(SecBar(MaxTs))),
       TextFrame(("type" :> Str("heartbeat", 0)) @@ ("data" :> Map(SecBar(MaxTs)))),
       TextFrame(("type" :> Str("authenticated", 0))),
       TypedFrame("subscriptionConfirmed", Map(("trendbars" :> List(MapList(<<SecBar(MaxTs)>>))))),
       TypedFrame("info", Str("welcome", 0)) >>

SingleBarFrames == [k \in 1..MaxTs |-> TrendbarsFrame(<<SecBar(k)>>)]

\* The data frame that carries bar a and then bar b.
PairFrame(a, b) == TrendbarsFrame(<<SecBar(a), SecBar(b)>>)

PairFrames ==
    [i \in 1..(MaxTs * MaxTs) |-> PairFrame(((i - 1) \div MaxTs) + 1, ((i - 1) % MaxTs) + 1)]

\* A duplicate of bar 1, then the newer bar 2, then bar 1 once more.
TripleFrame == TrendbarsFrame(<<SecBar(1), SecBar(2), SecBar(1)>>)

EncodingFrames ==
    << TripleFrame,
       TypedFrame("trendbar", Map(MsBar(2))),
       TypedFrame("trendbar", Map(IsoBar(1, "+01:00"))),
       TypedFrame("trendbar", Map(IsoBar(MaxTs, "Z"))),
       TypedFrame("trendbar", Map(("trendbar" :> Map(IsoBar(2, "naive"))))),
       TextFrame(("data" :> Map(SecBar(1)))),
       TextFrame(("payload" :> None) @@ ("data" :> Map(("trendbars" :> List(MapList(<<SecBar(2)>>)))))),
       RawFrame("mapping", "object", ("payload" :> Map(SecBar(MaxTs)))) >>

MalformedFrames ==
    << TrendbarsFrame(<<SecBar(1), NoTimestampBar, SecBar(2)>>),
       TrendbarsFrame(<<SecBar(2), BadTimestampBar>>),
       TrendbarsFrame(<<NoCloseBar>>),
       TrendbarsFrame(<<ListTimestampBar>>),
       TrendbarsFrame(<<ZeroOpenBar>>),
       TrendbarsFrame(<<SecBar(MaxTs), OutOfRangeBar>>),
       TypedFrame("trendbar", Map(NoTimestampBar)) >>

IgnoredFrames ==
    << TextFrame(("type" :> Str("trendbars", 0))),
       TypedFrame("trendbars", Map(("message" :> Str("hello", 0)))),
       TypedFrame("trendbars", Map(NoCloseBar)),
       TypedFrame("trendbars", Num(1)),
       TypedFrame("trendbars", List(MapList(<<SecBar(MaxTs)>>))),
       TypedFrame("trendbars", Map(("trendbars" :> None))),
       TypedFrame("trendbars", Map(("trendbars" :> Num(3)))),
       TypedFrame("trendbars", Map(("trendbars" :> List(<<Num(1), Str("x", 0)>>)))) >>

UndecodableFrames ==
    << RawFrame("text", "invalid", EmptyMap),
       RawFrame("text", "array", EmptyMap),
       RawFrame("bytes", "invalid", EmptyMap),
       TextFrame(("type" :> List(<<>>)) @@ ("payload" :> Map(SecBar(MaxTs)))) >>

\* Every frame the upstream may deliver.
Frames ==
    ControlFrames \o SingleBarFrames \o PairFrames \o EncodingFrames
    \o MalformedFrames \o IgnoredFrames \o UndecodableFrames

\* The history response whose body is the array of the n bars that the
\* digits of i in base MaxTs name.
ListResponse(n, i) ==
    Response("ok", 200, TRUE,
             List([j \in 1..n |-> Map(SecBar(((i \div (MaxTs ^ (j - 1))) % MaxTs) + 1))]))

RECURSIVE ShortResponses(_)
\* Every array response of at most n bars.
ShortResponses(n) ==
    LET here == [i \in 1..(MaxTs ^ n) |-> ListResponse(n, i - 1)]
    IN  IF n = 0 THEN here ELSE ShortResponses(n - 1) \o here

\* More bars than the session asks for, newest first.
LongResponse ==
    Response("ok", 200, TRUE,
             Map(("data" :> List([j \in 1..(HistoryLimit + 1) |->
                                     Map(SecBar(HistoryLimit + 2 - j))]))))

OtherResponses ==
    << Response("error", 0, FALSE, None),
       Response("ok", 500, TRUE, Map(("error" :> Str("denied", 0)))),
       Response("ok", 200, FALSE, None),
       Response("ok", 200, TRUE, Map(("message" :> Str("nothing", 0)))),
       Response("ok", 200, TRUE, Str("text", 0)),
       Response("ok", 200, TRUE,
                Map(("bars" :> List(MapList(<<SecBar(MaxTs), SecBar(1), SecBar(2)>>))))),
       Response("ok", 200, TRUE,
                Map(("trendbar" :> List(MapList(<<MsBar(2), IsoBar(1, "+01:00")>>))))),
       Response("ok", 200, TRUE, Map(SecBar(2))),
       Response("ok", 200, TRUE, Map(("items" :> List(MapList(<<SecBar(1), MsBar(1)>>))))),
       Response("ok", 200, TRUE, List(MapList(<<SecBar(2), SecBar(1)>>))),
       Response("ok", 200, TRUE, List(MapList(<<SecBar(1), NoTimestampBar>>))),
       Response("ok", 200, TRUE, List(MapList(<<OutOfRangeBar>>))),
       LongResponse >>

\* Every answer the upstream may give to the history request.
Responses == ShortResponses(MaxHist) \o OtherResponses

(***************************************************************************)
(* The state of one streaming session (stream_ohlc_data).                  *)
(***************************************************************************)
VARIABLES
    variant,          \* which of the two implementations runs
    access_token,     \* the session's arguments
    symbol,
    pc,               \* where the generator stands
    initial_bars,     \* the history seed
    seed_idx,         \* the next bar of the seed loop
    last_timestamp,   \* the watermark: None or a datetime
    reconnect_delay,  \* seconds; 0 before the assignment that creates it
    ws,               \* the connection: "none", "open" or "closed"
    frame,            \* the raw frame being handled, NoFrame between frames
    pending,          \* bar payloads of the current frame not yet built
    emitted,          \* the bars yielded to the consumer, in order
    sent,             \* the frames handed to ws.send on this connection
    error,            \* the exception that ended the session, or "none"
    nframes,          \* frames received
    waits,            \* the waits since the session last entered Streaming
    recovered,        \* the open connection was made after the delay had grown
    limit,            \* a one-shot fetch_ohlc_data call: its limit argument,
    rpc,              \*   where the call stands,
    upstream,         \*   the response requests.get returned,
    http_requests,    \*   the HTTP requests it has issued,
    outcome,          \*   and what it returned or raised
    timeframe,        \*   its timeframe argument, a string of characters,
    http_log,         \*   the requests it has issued, in order,
    build_calls,      \*   and the calls of build_bar it has made
    endpoint,         \* an HTTP request to the routes: "ohlc" or "ohlc-stream",
    query,            \*   its query arguments as received,
    rstep,            \*   where its handling stands,
    status,           \*   the status of the response, 0 before there is one,
    events,           \*   and the server-sent events written to the response
    payload           \* the mapping handed to a call of build_bar

params == <<variant, access_token, symbol>>

\* The state of the session.
session ==
    <<pc, initial_bars, seed_idx, last_timestamp, reconnect_delay, ws, frame, pending,
      emitted, sent, error, nframes, waits, recovered>>

\* The state of a one-shot call of fetch_ohlc_data.
rest == <<limit, rpc, upstream, http_requests, outcome, timeframe, http_log, build_calls>>

\* The state of an HTTP request to the routes.
web == <<endpoint, query, rstep, status, events>>

vars ==
    <<variant, access_token, symbol, pc, initial_bars, seed_idx, last_timestamp,
      reconnect_delay, ws, frame, pending, emitted, sent, error, nframes, waits, recovered,
      limit, rpc, upstream, http_requests, outcome, timeframe, http_log, build_calls,
      endpoint, query, rstep, status, events, payload>>

NoFrame == RawFrame("none", "invalid", EmptyMap)

\* No response yet, and no outcome yet.
NoResponse == Response("none", 0, FALSE, None)

NoResult == Raise("pending")

\* No one-shot call is being made.
RestIdle ==
    /\ limit = HistoryLimit
    /\ rpc = "idle"
    /\ upstream = NoResponse
    /\ http_requests = 0
    /\ outcome = NoResult
    /\ timeframe = <<"M", "1">>
    /\ http_log = <<>>
    /\ build_calls = 0

\* No HTTP request is handled and build_bar is not called on its own.
WebIdle ==
    /\ endpoint = "none"
    /\ query = EmptyMap
    /\ rstep = "idle"
    /\ status = 0
    /\ events = <<>>
    /\ payload = EmptyMap

Init ==
    /\ variant \in {"streaming", "ctrader_market_data"}
    /\ access_token \in {"token", ""}
    /\ symbol \in {"EURUSD", ""}
    /\ RestIdle
    /\ WebIdle
    /\ pc = "fetch"
    /\ initial_bars = <<>>
    /\ seed_idx = 1
    /\ last_timestamp = None
    /\ reconnect_delay = 0
    /\ ws = "none"
    /\ frame = NoFrame
    /\ pending = <<>>
    /\ emitted = <<>>
    /\ sent = <<>>
    /\ error = "none"
    /\ nframes = 0
    /\ waits = <<>>
    /\ recovered = FALSE

(***************************************************************************)
(* The steps of the session.                                               *)
(***************************************************************************)
\* An exception raised inside the try block of the session loop: the
\* connection is closed on the way out, and the except clauses either
\* catch it (the session goes on to the backoff sleep) or let it end the
\* session.
Abandon(exc) ==
    /\ ws' = IF ws = "open" THEN "closed" ELSE ws
    /\ frame' = NoFrame
    /\ pending' = <<>>
    /\ recovered' = FALSE
    /\ IF Caught(variant, exc)
       THEN pc' = "sleep" /\ error' = error
       ELSE pc' = "error" /\ error' = exc

\* The watermark _fetch_initial_history returns: the modular implementation
\* takes it from the last bar, the single-file one starts from None.
InitialWatermark(v, bars) ==
    IF v = "streaming" /\ bars # <<>> THEN bars[Len(bars)].timestamp ELSE None

\* await _fetch_initial_history(...): the REST call answers with response r.
FetchInitialHistory ==
    /\ pc = "fetch"
    /\ \E r \in 1..Len(Responses) :
         LET result == fetch_ohlc_data(access_token, symbol, HistoryLimit, Responses[r])
         IN  IF result.exc # "none"
             THEN /\ pc' = "error"
                  /\ error' = result.exc
                  /\ UNCHANGED <<initial_bars, last_timestamp>>
             ELSE /\ pc' = "seed"
                  /\ initial_bars' = result.val
                  /\ last_timestamp' = InitialWatermark(variant, result.val)
                  /\ error' = error
    /\ UNCHANGED <<params, rest, web, payload, recovered, seed_idx, reconnect_delay, ws, frame, pending, emitted, sent,
                   nframes, waits>>

\* The seed loop without "last_timestamp = bar.timestamp".
EmitHistoricalBarUntracked ==
    /\ pc = "seed"
    /\ seed_idx <= Len(initial_bars)
    /\ emitted' = Append(emitted, initial_bars[seed_idx])
    /\ seed_idx' = seed_idx + 1
    /\ UNCHANGED <<params, rest, web, payload, recovered, pc, initial_bars, last_timestamp, reconnect_delay, ws,
                   frame, pending, sent, error, nframes, waits>>

\* One turn of "for bar in initial_bars".
EmitHistoricalBar ==
    /\ pc = "seed"
    /\ seed_idx <= Len(initial_bars)
    /\ last_timestamp' = initial_bars[seed_idx].timestamp
    /\ emitted' = Append(emitted, initial_bars[seed_idx])
    /\ seed_idx' = seed_idx + 1
    /\ UNCHANGED <<params, rest, web, payload, recovered, pc, initial_bars, reconnect_delay, ws, frame, pending, sent,
                   error, nframes, waits>>

\* The seed loop is over: reconnect_delay = 1.0 and the loop is entered.
StartStreaming ==
    /\ pc = "seed"
    /\ seed_idx > Len(initial_bars)
    /\ reconnect_delay' = 1
    /\ pc' = "connect"
    /\ UNCHANGED <<params, rest, web, payload, recovered, initial_bars, seed_idx, last_timestamp, ws, frame, pending,
                   emitted, sent, error, nframes, waits>>

\* A connection that starts over with no watermark.
ConnectFresh ==
    /\ pc = "connect"
    /\ ws' = "open"
    /\ sent' = <<>>
    /\ pc' = "auth"
    /\ last_timestamp' = None
    /\ UNCHANGED <<params, rest, web, payload, recovered, initial_bars, seed_idx, reconnect_delay,
                   frame, pending, emitted, error, nframes, waits>>

\* websockets.connect(...) succeeds.
Connect ==
    /\ pc = "connect"
    /\ ws' = "open"
    /\ sent' = <<>>
    /\ pc' = "auth"
    /\ UNCHANGED <<params, rest, web, payload, recovered, initial_bars, seed_idx, last_timestamp, reconnect_delay,
                   frame, pending, emitted, error, nframes, waits>>

\* A failed connection attempt that ends the session instead of backing off.
ConnectFailsFatal ==
    /\ pc = "connect"
    /\ sent' = <<>>
    /\ \E exc \in {"OSError", "TimeoutError", "Exception"} : pc' = "error" /\ error' = exc
    /\ UNCHANGED <<params, rest, web, payload, recovered, initial_bars, seed_idx, last_timestamp, reconnect_delay,
                   ws, frame, pending, emitted, nframes, waits>>

\* websockets.connect(...) raises: the connection is refused or times out
\* (OSError, TimeoutError) or the handshake is rejected (Exception).
ConnectFails ==
    /\ pc = "connect"
    /\ sent' = <<>>
    /\ \E exc \in {"OSError", "TimeoutError", "Exception"} : Abandon(exc)
    /\ UNCHANGED <<params, rest, web, payload, initial_bars, seed_idx, last_timestamp, reconnect_delay,
                   emitted, nframes, waits>>

\* _authenticate_and_subscribe, first send.
SendAuthenticate ==
    /\ pc = "auth"
    /\ sent' = Append(sent, AuthMessage(access_token))
    /\ \/ pc' = "subscribe" /\ UNCHANGED <<recovered, ws, frame, pending, error>>
       \/ Abandon("ConnectionClosed")
    /\ UNCHANGED <<params, rest, web, payload, initial_bars, seed_idx, last_timestamp, reconnect_delay,
                   emitted, nframes, waits>>

\* The second send without the reset of reconnect_delay that follows it.
SendSubscribeKeepsDelay ==
    /\ pc = "subscribe"
    /\ sent' = Append(sent, SubscribeMessage(symbol, last_timestamp))
    /\ \/ /\ pc' = "recv"
          /\ waits' = <<>>
          /\ recovered' = (reconnect_delay > 1)
          /\ UNCHANGED <<ws, frame, pending, error>>
       \/ /\ Abandon("ConnectionClosed")
          /\ UNCHANGED waits
    /\ UNCHANGED <<params, rest, web, payload, initial_bars, seed_idx, last_timestamp, reconnect_delay, emitted,
                   nframes>>

\* _authenticate_and_subscribe, second send, and reconnect_delay = 1.0 when
\* it returns.
SendSubscribe ==
    /\ pc = "subscribe"
    /\ sent' = Append(sent, SubscribeMessage(symbol, last_timestamp))
    /\ \/ /\ pc' = "recv"
          /\ reconnect_delay' = 1
          /\ waits' = <<>>
          /\ recovered' = (reconnect_delay > 1)
          /\ UNCHANGED <<ws, frame, pending, error>>
       \/ /\ Abandon("ConnectionClosed")
          /\ UNCHANGED <<reconnect_delay, waits>>
    /\ UNCHANGED <<params, rest, web, payload, initial_bars, seed_idx, last_timestamp, emitted, nframes>>

\* "async for raw in ws" hands over the next frame.
ReceiveFrame ==
    /\ pc = "recv"
    /\ nframes < MaxFrames
    /\ \E i \in 1..Len(Frames) : frame' = Frames[i]
    /\ nframes' = nframes + 1
    /\ pc' = "dispatch"
    /\ UNCHANGED <<params, rest, web, payload, recovered, initial_bars, seed_idx, last_timestamp, reconnect_delay, ws,
                   pending, emitted, sent, error, waits>>

\* A frame loop that ends and goes straight to the next connection attempt.
ConnectionEndsNoWait ==
    /\ pc = "recv"
    /\ ws' = "closed"
    /\ pc' = "connect"
    /\ recovered' = FALSE
    /\ UNCHANGED <<params, rest, web, payload, initial_bars, seed_idx, last_timestamp, reconnect_delay,
                   frame, pending, emitted, sent, error, nframes, waits>>

\* The frame loop ends: the connection is lost (ConnectionClosed, OSError,
\* TimeoutError) or the server closes it cleanly and the iteration stops.
ConnectionEnds ==
    /\ pc = "recv"
    /\ ws' = "closed"
    /\ pc' = "sleep"
    /\ recovered' = FALSE
    /\ UNCHANGED <<params, rest, web, payload, initial_bars, seed_idx, last_timestamp, reconnect_delay,
                   frame, pending, emitted, sent, error, nframes, waits>>

\* What the body of the frame loop does with the frame: "raise" (with the
\* exception), "ping", "control" or "data".
Dispatch(raw) ==
    LET message == _decode_message(raw)
    IN  IF message.exc # "none" THEN [do |-> "raise", exc |-> message.exc]
        ELSE IF MessageClass(message.val.v) = "TypeError"
             THEN [do |-> "raise", exc |-> "Exception"]
        ELSE [do |-> MessageClass(message.val.v), exc |-> "none"]

\* _decode_message rejects the frame, or its type cannot be looked up.
RejectFrame ==
    /\ pc = "dispatch"
    /\ Dispatch(frame).do = "raise"
    /\ Abandon(Dispatch(frame).exc)
    /\ UNCHANGED <<params, rest, web, payload, initial_bars, seed_idx, last_timestamp, reconnect_delay,
                   emitted, sent, nframes, waits>>

\* A ping or heartbeat: _respond_to_ping, then the next frame.
AnswerPing ==
    /\ pc = "dispatch"
    /\ Dispatch(frame).do = "ping"
    /\ sent' = Append(sent, PongResponse(frame.msg))
    /\ \/ pc' = "recv" /\ frame' = NoFrame /\ UNCHANGED <<recovered, ws, pending, error>>
       \/ Abandon("ConnectionClosed")
    /\ UNCHANGED <<params, rest, web, payload, initial_bars, seed_idx, last_timestamp, reconnect_delay,
                   emitted, nframes, waits>>

\* A control acknowledgement: the next frame.
SkipControl ==
    /\ pc = "dispatch"
    /\ Dispatch(frame).do = "control"
    /\ pc' = "recv"
    /\ frame' = NoFrame
    /\ UNCHANGED <<params, rest, web, payload, recovered, initial_bars, seed_idx, last_timestamp, reconnect_delay, ws,
                   pending, emitted, sent, error, nframes, waits>>

\* Any other frame: its bar payloads are located, or the frame is ignored.
LocateBars ==
    /\ pc = "dispatch"
    /\ Dispatch(frame).do = "data"
    /\ LET bars_payload == BarsPayload(frame.msg).bars
       IN  /\ pending' = bars_payload
           /\ IF bars_payload = <<>>
              THEN pc' = "recv" /\ frame' = NoFrame
              ELSE pc' = "bars" /\ frame' = frame
    /\ UNCHANGED <<params, rest, web, payload, recovered, initial_bars, seed_idx, last_timestamp, reconnect_delay, ws,
                   emitted, sent, error, nframes, waits>>

\* One turn of "for bar_payload in bars_payload" and of the loop of the
\* session that takes the bar: build_bar, the watermark test, the yield.
YieldTrendbar ==
    /\ pc = "bars"
    /\ LET bar == build_bar(Head(pending))
       IN  IF bar.exc # "none"
           THEN /\ Abandon(bar.exc)
                /\ UNCHANGED <<last_timestamp, emitted>>
           ELSE /\ IF NotNewer(last_timestamp, bar.val)
                   THEN UNCHANGED <<last_timestamp, emitted>>
                   ELSE /\ last_timestamp' = bar.val.timestamp
                        /\ emitted' = Append(emitted, bar.val)
                /\ pending' = Tail(pending)
                /\ IF Tail(pending) = <<>>
                   THEN pc' = "recv" /\ frame' = NoFrame
                   ELSE pc' = "bars" /\ frame' = frame
                /\ UNCHANGED <<recovered, ws, error>>
    /\ UNCHANGED <<params, rest, web, payload, initial_bars, seed_idx, reconnect_delay, sent, nframes, waits>>

\* The backoff without the ceiling: the delay doubles for ever.
BackoffUncapped ==
    /\ pc = "sleep"
    /\ Len(waits) < MaxRetries
    /\ waits' = Append(waits, reconnect_delay)
    /\ reconnect_delay' = reconnect_delay * 2
    /\ pc' = "connect"
    /\ UNCHANGED <<params, rest, web, payload, recovered, initial_bars, seed_idx, last_timestamp, ws, frame, pending,
                   emitted, sent, error, nframes>>

\* await asyncio.sleep(reconnect_delay), then the delay doubles up to the cap.
Backoff ==
    /\ pc = "sleep"
    /\ Len(waits) < MaxRetries
    /\ waits' = Append(waits, reconnect_delay)
    /\ reconnect_delay' = Min(reconnect_delay * 2, _MAX_RECONNECT_DELAY)
    /\ pc' = "connect"
    /\ UNCHANGED <<params, rest, web, payload, recovered, initial_bars, seed_idx, last_timestamp, ws, frame, pending,
                   emitted, sent, error, nframes>>

Next ==
    \/ FetchInitialHistory
    \/ EmitHistoricalBar
    \/ StartStreaming
    \/ Connect
    \/ ConnectFails
    \/ SendAuthenticate
    \/ SendSubscribe
    \/ ReceiveFrame
    \/ ConnectionEnds
    \/ RejectFrame
    \/ AnswerPing
    \/ SkipControl
    \/ LocateBars
    \/ YieldTrendbar
    \/ Backoff

Spec == Init /\ [][Next]_vars

(***************************************************************************)
(* Cancellation.  The consumer closes the generator, or cancels the task   *)
(* that runs it, while the session is suspended at an await or at a yield. *)
(* GeneratorExit and CancelledError are no subclasses of Exception, so no  *)
(* except clause of the session loop catches them; the async with block    *)
(* closes the connection on the way out.                                   *)
(***************************************************************************)
\* The session is suspended: in the history fetch, at the yield of a seed or
\* live bar, in the connection handshake, in a send, waiting for a frame, or
\* in the backoff sleep.
Suspended ==
    \/ pc \in {"fetch", "connect", "auth", "subscribe", "recv", "sleep"}
    \/ pc = "seed" /\ seed_idx > 1
    \/ pc = "bars" /\ Len(emitted) > Len(initial_bars)
    \/ pc = "dispatch" /\ Dispatch(frame).do = "ping"

\* A cancellation that leaves the connection as it is.
CancelLeavesOpen ==
    /\ Suspended
    /\ pc' = "cancelled"
    /\ frame' = NoFrame
    /\ pending' = <<>>
    /\ UNCHANGED <<params, rest, web, payload, recovered, initial_bars, seed_idx, last_timestamp, reconnect_delay,
                   ws, emitted, sent, error, nframes, waits>>

Cancel ==
    /\ Suspended
    /\ pc' = "cancelled"
    /\ ws' = IF ws = "open" THEN "closed" ELSE ws
    /\ frame' = NoFrame
    /\ pending' = <<>>
    /\ UNCHANGED <<params, rest, web, payload, recovered, initial_bars, seed_idx, last_timestamp, reconnect_delay,
                   emitted, sent, error, nframes, waits>>

NextOrCancel == Next \/ Cancel

\* The session with a consumer that may cancel it.
CancellableSpec == Init /\ [][NextOrCancel]_vars

(***************************************************************************)
(* A one-shot call of fetch_ohlc_data, step by step: the validation of the *)
(* arguments, the HTTP request, and the handling of the response.          *)
(***************************************************************************)
\* The largest limit the documentation of the /ohlc route allows.
DocumentedMaxLimit == 500

\* The limits a caller may pass.
Limits == {-1, 0, 1, 2, MaxTs, HistoryLimit, DocumentedMaxLimit, DocumentedMaxLimit + 1}

\* More bars than the documented maximum, newest first.
HugeResponse ==
    Response("ok", 200, TRUE,
             Map(("trendbars" :> List([j \in 1..(DocumentedMaxLimit + 2) |->
                                          Map(SecBar(DocumentedMaxLimit + 3 - j))]))))

\* A success status and a list of bars, with an error field beside it.
ErrorFieldResponse ==
    Response("ok", 200, TRUE,
             Map(("error" :> Str("denied", 0)) @@
                 ("data" :> List(MapList(<<SecBar(2), SecBar(1)>>)))))

\* An object whose bars sit one level below an accepted key.
NestedResponse ==
    Response("ok", 200, TRUE,
             Map(("data" :> Map(("trendbars" :> List(MapList(<<SecBar(1)>>)))))))

\* Every answer the upstream may give to a one-shot history request.
FetchResponses == Responses \o <<HugeResponse, ErrorFieldResponse, NestedResponse>>

\* The timeframe arguments of the calls, as strings of characters.
Timeframes ==
    { <<"M", "1">>, <<"m", "1">>, <<"h", "4">>, <<"M", "n", "1">>, <<"X", "9">>, <<"x", "9">> }

\* timeframe.upper()
Upper(text) ==
    [i \in 1..Len(text) |->
        CASE text[i] = "m" -> "M"
          [] text[i] = "n" -> "N"
          [] text[i] = "h" -> "H"
          [] text[i] = "d" -> "D"
          [] text[i] = "w" -> "W"
          [] text[i] = "x" -> "X"
          [] OTHER -> text[i]]

\* The calls of build_bar made on a response: none unless the bars were
\* extracted, then one per raw bar up to the first that raises.
BuildCalls(response) ==
    IF response.status >= 400 \/ ~response.json THEN 0
    ELSE LET raw_bars == _extract_trendbars(response.body)
         IN  IF raw_bars.exc # "none" THEN 0
             ELSE LET failed == {i \in 1..Len(raw_bars.val) :
                                    build_bar(raw_bars.val[i]).exc # "none"}
                  IN  IF failed = {} THEN Len(raw_bars.val)
                      ELSE CHOOSE i \in failed : \A j \in failed : i <= j

\* A call of fetch_ohlc_data is about to be made; no session runs.
FetchInit ==
    /\ variant \in {"streaming", "ctrader_market_data"}
    /\ access_token \in {"token", ""}
    /\ symbol \in {"EURUSD", ""}
    /\ limit \in Limits
    /\ rpc = "start"
    /\ upstream = NoResponse
    /\ http_requests = 0
    /\ outcome = NoResult
    /\ timeframe \in Timeframes
    /\ http_log = <<>>
    /\ build_calls = 0
    /\ WebIdle
    /\ pc = "none"
    /\ initial_bars = <<>>
    /\ seed_idx = 1
    /\ last_timestamp = None
    /\ reconnect_delay = 0
    /\ ws = "none"
    /\ frame = NoFrame
    /\ pending = <<>>
    /\ emitted = <<>>
    /\ sent = <<>>
    /\ error = "none"
    /\ nframes = 0
    /\ waits = <<>>
    /\ recovered = FALSE

\* The request is sent whatever the limit is.
FetchValidateAnyLimit ==
    /\ rpc = "start"
    /\ IF access_token = "" \/ symbol = ""
       THEN rpc' = "done" /\ outcome' = Raise("ValueError")
       ELSE rpc' = "request" /\ outcome' = outcome
    /\ UNCHANGED <<params, session, web, payload, limit, upstream, http_requests, timeframe, http_log, build_calls>>

\* The checks of the arguments, before anything else.
FetchValidate ==
    /\ rpc = "start"
    /\ IF access_token = "" \/ symbol = "" \/ limit <= 0
       THEN rpc' = "done" /\ outcome' = Raise("ValueError")
       ELSE rpc' = "request" /\ outcome' = outcome
    /\ UNCHANGED <<params, session, web, payload, limit, upstream, http_requests, timeframe, http_log, build_calls>>

\* A request that is sent once more when the first one fails in transport.
FetchRequestRetried ==
    /\ rpc = "request"
    /\ http_requests' = http_requests + 1
    /\ http_log' = Append(http_log, [path |-> <<"accounts", "symbols", symbol, "trendbars">>,
                                     timeframe |-> Upper(timeframe), limit |-> limit])
    /\ \E r \in 1..Len(FetchResponses) :
         /\ upstream' = FetchResponses[r]
         /\ IF FetchResponses[r].net = "error"
            THEN IF http_requests = 0
                 THEN rpc' = "request" /\ outcome' = outcome
                 ELSE rpc' = "done" /\ outcome' = Raise("CTraderMarketDataError")
            ELSE rpc' = "response" /\ outcome' = outcome
    /\ UNCHANGED <<params, session, web, payload, limit, timeframe, build_calls>>

\* requests.get(...): one HTTP request, answered or failed.
FetchRequest ==
    /\ rpc = "request"
    /\ http_requests' = http_requests + 1
    /\ http_log' = Append(http_log, [path |-> <<"accounts", "symbols", symbol, "trendbars">>,
                                     timeframe |-> Upper(timeframe), limit |-> limit])
    /\ \E r \in 1..Len(FetchResponses) :
         /\ upstream' = FetchResponses[r]
         /\ IF FetchResponses[r].net = "error"
            THEN rpc' = "done" /\ outcome' = Raise("CTraderMarketDataError")
            ELSE rpc' = "response" /\ outcome' = outcome
    /\ UNCHANGED <<params, session, web, payload, limit, timeframe, build_calls>>

\* The status check, the JSON decoding, the extraction, normalisation and
\* sorting of the bars and the cut to the newest limit.
FetchReturn ==
    /\ rpc = "response"
    /\ outcome' = fetch_ohlc_data(access_token, symbol, limit, upstream)
    /\ rpc' = "done"
    /\ build_calls' = BuildCalls(upstream)
    /\ UNCHANGED <<params, session, web, payload, limit, upstream, http_requests, timeframe, http_log>>

FetchNext == FetchValidate \/ FetchRequest \/ FetchReturn

FetchSpec == FetchInit /\ [][FetchNext]_vars

(***************************************************************************)
(* The routes GET /ohlc/<ticker> and GET /ohlc-stream/<ticker>.  A query   *)
(* argument is None when the request does not carry it and a string        *)
(* otherwise; timeframe and limit take their defaults, base_url and        *)
(* timeout are not given.                                                  *)
(***************************************************************************)
\* request.args.get(name, type=int): None when int() rejects the text.
IntArg(value) ==
    IF value.t = "str" /\ value.fmt = "numeric" THEN Num(value.v) ELSE None

\* A parser that reads a timestamp without a timezone as UTC.
ParseIsoNaiveAsUtc(value) ==
    CASE value.fmt \in {"Z", "naive"} -> Ok(DateTime("+00:00", value.v))
      [] value.fmt \in {"+00:00", "+01:00"} ->
            Ok(DateTime("+00:00", value.v - OffsetSeconds(value.fmt)))
      [] OTHER -> Raise("ValueError")

_parse_iso8601(value) ==
    CASE value.fmt = "Z" -> Ok(DateTime("+00:00", value.v))
      [] value.fmt \in {"+00:00", "+01:00"} ->
            Ok(DateTime("+00:00", value.v - OffsetSeconds(value.fmt)))
      [] value.fmt = "naive" -> Raise("ValueError")
      [] OTHER -> Raise("ValueError")

\* _parse_iso8601(start) if start else None
OptionalTime(value) == IF Truthy(value) THEN _parse_iso8601(value) ELSE Ok(None)

\* The names of the keyword arguments in the dictionary the route builds;
\* their values are the arguments of the request.
_build_fetch_request(symbol_id, start, end) ==
    {"access_token", "ctid_trader_account_id", "symbol_name", "timeframe", "limit",
     "request_timeout"}
        \cup (IF IsNone(symbol_id) THEN {} ELSE {"symbol_id"})
        \cup (IF IsNone(start) THEN {} ELSE {"start_time"})
        \cup (IF IsNone(end) THEN {} ELSE {"end_time"})

\* Python binds fetch_ohlc_data(**kwargs) to the parameters access_token,
\* account_id, symbol, timeframe="M1", limit=100.
Binds(kwargs) ==
    /\ kwargs \subseteq {"access_token", "account_id", "symbol", "timeframe", "limit"}
    /\ {"access_token", "account_id", "symbol"} \subseteq kwargs

\* fetch_ohlc_data(**kwargs): TypeError when the keywords do not bind,
\* before the body of the function runs.
KeywordCall(kwargs, token, ticker, count, response) ==
    IF Binds(kwargs) THEN fetch_ohlc_data(token, ticker, count, response)
    ELSE Raise("TypeError")

\* The arguments a request may carry.
Queries ==
    LET times == {None, Str("empty", 0), Str("Z", InstantOf(1)),
                  Str("+01:00", InstantOf(1) + 3600), Str("naive", InstantOf(1)),
                  Str("bad", 0)}
    IN  [access_token : {None, Str("empty", 0), Str("token", 0)},
         account_id : {None, Str("numeric", 1), Str("abc", 0)},
         symbol_id : {None, Str("numeric", 7)},
         start : times,
         end : times]

\* A request has arrived at one of the two routes.
RouteInit ==
    /\ variant = "ctrader_market_data"
    /\ endpoint \in {"ohlc", "ohlc-stream"}
    /\ query \in Queries
    /\ access_token = IF query.access_token = Str("token", 0) THEN "token" ELSE ""
    /\ symbol = "EURUSD"
    /\ rstep = "args"
    /\ status = 0
    /\ events = <<>>
    /\ payload = EmptyMap
    /\ RestIdle
    /\ pc = "none"
    /\ initial_bars = <<>>
    /\ seed_idx = 1
    /\ last_timestamp = None
    /\ reconnect_delay = 0
    /\ ws = "none"
    /\ frame = NoFrame
    /\ pending = <<>>
    /\ emitted = <<>>
    /\ sent = <<>>
    /\ error = "none"
    /\ nframes = 0
    /\ waits = <<>>
    /\ recovered = FALSE

\* The checks both routes make before anything else: the two required
\* arguments and the two optional timestamps.
RouteArgs ==
    /\ rstep = "args"
    /\ IF \/ IsNone(query.access_token)
          \/ IsNone(IntArg(query.account_id))
          \/ OptionalTime(query.start).exc # "none"
          \/ OptionalTime(query.end).exc # "none"
       THEN status' = 400 /\ rstep' = "done"
       ELSE status' = status /\ rstep' = "call"
    /\ UNCHANGED <<params, session, rest, endpoint, query, events, payload>>

\* The call of fetch_ohlc_data a route makes, answered by response: what it
\* gives, and what it leaves in the state of the call.
RouteFetch(response, result) ==
    LET kwargs == _build_fetch_request(IntArg(query.symbol_id), OptionalTime(query.start).val,
                                       OptionalTime(query.end).val)
        issued == Binds(kwargs) /\ access_token # "" /\ symbol # "" /\ limit > 0
    IN  /\ result = KeywordCall(kwargs, access_token, symbol, limit, response)
        /\ outcome' = result
        /\ http_requests' = IF issued THEN http_requests + 1 ELSE http_requests
        /\ http_log' = IF issued
                       THEN Append(http_log,
                                   [path |-> <<"accounts", "symbols", symbol, "trendbars">>,
                                    timeframe |-> Upper(timeframe), limit |-> limit])
                       ELSE http_log
        /\ upstream' = IF issued THEN response ELSE upstream
        /\ build_calls' = IF issued /\ response.net = "ok" THEN BuildCalls(response) ELSE 0
        /\ UNCHANGED <<params, session, limit, rpc, timeframe, endpoint, query, payload>>

\* The rest of get_ohlc: the call, and the response made of its result.
get_ohlc ==
    /\ rstep = "call"
    /\ endpoint = "ohlc"
    /\ \E r \in 1..Len(FetchResponses) :
         \E result \in {KeywordCall(_build_fetch_request(IntArg(query.symbol_id),
                                                         OptionalTime(query.start).val,
                                                         OptionalTime(query.end).val),
                                    access_token, symbol, limit, FetchResponses[r])} :
            /\ RouteFetch(FetchResponses[r], result)
            /\ status' = CASE result.exc = "none" -> 200
                            [] result.exc = "ValueError" -> 400
                            [] result.exc = "CTraderMarketDataError" -> 502
                            [] OTHER -> 500
    /\ rstep' = "done"
    /\ events' = events

\* The generator behind the response of stream_ohlc, run to its end.  An
\* exception it does not catch leaves the stream as it is at that point;
\* json.dumps raises TypeError on the datetime of a serialised bar.
_event_stream ==
    /\ rstep = "call"
    /\ endpoint = "ohlc-stream"
    /\ status' = 200
    /\ \E r \in 1..Len(FetchResponses) :
         \E result \in {KeywordCall(_build_fetch_request(IntArg(query.symbol_id),
                                                         OptionalTime(query.start).val,
                                                         OptionalTime(query.end).val),
                                    access_token, symbol, limit, FetchResponses[r])} :
            /\ RouteFetch(FetchResponses[r], result)
            /\ CASE result.exc \in {"ValueError", "CTraderMarketDataError"} ->
                        /\ events' = <<[event |-> "error"]>>
                        /\ rstep' = "done"
                 [] result.exc = "none" /\ Len(result.val) = 0 ->
                        /\ events' = <<[event |-> "meta", count |-> 0],
                                       [event |-> "complete", count |-> 0]>>
                        /\ rstep' = "done"
                 [] result.exc = "none" /\ Len(result.val) > 0 ->
                        /\ events' = <<[event |-> "meta", count |-> Len(result.val)]>>
                        /\ rstep' = "aborted"
                 [] OTHER ->
                        /\ events' = <<>>
                        /\ rstep' = "aborted"

RouteNext == RouteArgs \/ get_ohlc \/ _event_stream

RouteSpec == RouteInit /\ [][RouteNext]_vars

(***************************************************************************)
(* build_bar on its own: one call on one mapping.                          *)
(***************************************************************************)
TimestampKeys == {"timestamp", "time", "openTimestamp", "startTimestamp", "utcTimestamp"}

\* The key of a price: "open" or "openPrice", and so on.
PriceKey(name, aliased) == IF aliased THEN name \o "Price" ELSE name

\* The mapping with the one key, or without it when there is no value.
Field(key, value) == IF IsNone(value) THEN EmptyMap ELSE (key :> value)

\* The mapping that carries the values of fields with its timestamp under
\* key and its prices under the primary or the alias names.
Encode(fields, key, aliased) ==
    Field(key, fields.timestamp)
        @@ Field(PriceKey("open", aliased), fields.open)
        @@ Field(PriceKey("high", aliased), fields.high)
        @@ Field(PriceKey("low", aliased), fields.low)
        @@ Field(PriceKey("close", aliased), fields.close)
        @@ Field("volume", fields.volume)

\* The values a mapping may carry: absent ones, numbers, zero, texts.
Payloads ==
    LET stamps == {None, Num(0), Num(T0K + 1), Num(InstantOf(1)), Num(MaxEpochK + 1),
                   Num(MsThresholdK), Num(MsThresholdK + 1),
                   Str("Z", InstantOf(1)), Str("+01:00", InstantOf(1) + 3600),
                   Str("naive", InstantOf(1)), Str("bad", 0), List(<<Num(T0K + 1)>>)}
        prices == {None, Num(0), Num(10), Str("numeric", 12), Str("bad", 0)}
    IN  [timestamp : stamps, open : prices, high : prices, low : prices, close : prices,
         volume : {None, Num(5), Str("bad", 0), List(<<Num(5)>>)}]

\* A mapping is about to be handed to build_bar.
BuildInit ==
    /\ variant \in {"streaming", "ctrader_market_data"}
    /\ access_token = "token"
    /\ symbol = "EURUSD"
    /\ \E fields \in Payloads, key \in TimestampKeys, aliased \in BOOLEAN :
          payload = Encode(fields, key, aliased)
    /\ endpoint = "none"
    /\ query = EmptyMap
    /\ rstep = "idle"
    /\ status = 0
    /\ events = <<>>
    /\ RestIdle
    /\ pc = "none"
    /\ initial_bars = <<>>
    /\ seed_idx = 1
    /\ last_timestamp = None
    /\ reconnect_delay = 0
    /\ ws = "none"
    /\ frame = NoFrame
    /\ pending = <<>>
    /\ emitted = <<>>
    /\ sent = <<>>
    /\ error = "none"
    /\ nframes = 0
    /\ waits = <<>>
    /\ recovered = FALSE

\* The call build_bar(payload).
BuildBar ==
    /\ outcome = NoResult
    /\ outcome' = build_bar(payload)
    /\ build_calls' = build_calls + 1
    /\ UNCHANGED <<params, session, web, payload, limit, rpc, upstream, http_requests,
                   timeframe, http_log>>

BuildSpec == BuildInit /\ [][BuildBar]_vars

(***************************************************************************)
(* The OAuth callback (routes/redirect.py): GET /redirect.                 *)
(***************************************************************************)
\* str(value) and the text of a value in an f-string; the empty string
\* stays empty.
PyStr(value) ==
    CASE value.t = "str" -> value
      [] value.t = "num" -> Str("numeric", value.v)
      [] OTHER -> Str("repr", 0)

_format_oauth_error(err, description) ==
    IF Truthy(description)
    THEN Str((IF PyStr(err).fmt = "empty" THEN "" ELSE PyStr(err).fmt) \o ": "
                 \o PyStr(description).fmt, 0)
    ELSE err

\* The query string of the redirect to the index page, as the mapping that
\* urlencode receives.
_redirect_to_index(token, expires_at, account_id, state_, err) ==
    (IF Truthy(token) THEN "ctrader_access_token" :> token ELSE EmptyMap)
        @@ (IF Truthy(expires_at) THEN "ctrader_access_token_expires_at" :> expires_at
            ELSE IF ~IsNone(expires_at)
                 THEN "ctrader_access_token_expires_at" :> Str("empty", 0)
            ELSE EmptyMap)
        @@ (IF Truthy(account_id) THEN "ctrader_account_id" :> PyStr(account_id)
            ELSE IF ~IsNone(account_id) THEN "ctrader_account_id" :> Str("empty", 0)
            ELSE EmptyMap)
        @@ (IF Truthy(state_) THEN "state" :> state_ ELSE EmptyMap)
        @@ (IF Truthy(err) THEN "error" :> err ELSE EmptyMap)

\* int(expires_in) fails with TypeError or ValueError: no expiry.
_compute_expiry_timestamp(expires_in) ==
    IF expires_in.t = "num" \/ (expires_in.t = "str" /\ expires_in.fmt = "numeric")
    THEN Str("isoformat", 0)
    ELSE None

\* What the handler makes of the answer of the token endpoint: the token
\* payload, or CTraderOAuthError with its message.
_exchange_authorisation_code(response) ==
    CASE response.net = "error" ->
            [exc |-> "CTraderOAuthError", val |-> Str("Unable to contact cTrader token endpoint.", 0)]
      [] response.net # "error" /\ response.status >= 400 ->
            [exc |-> "CTraderOAuthError", val |-> Str("cTrader token endpoint responded with status", 0)]
      [] response.net # "error" /\ response.status < 400 /\ ~response.json ->
            [exc |-> "CTraderOAuthError", val |-> Str("Unable to parse cTrader token response.", 0)]
      [] OTHER ->
            IF response.body.t # "map"
            THEN [exc |-> "CTraderOAuthError",
                  val |-> Str("Unexpected payload structure from token endpoint.", 0)]
            ELSE IF Truthy(Get(response.body.v, "error"))
            THEN [exc |-> "CTraderOAuthError",
                  val |-> _format_oauth_error(PyStr(response.body.v["error"]),
                                              Get(response.body.v, "error_description"))]
            ELSE Ok(response.body.v)

\* The POST to GetTradingAccounts and the checks of its answer.
_call_ctrader_endpoint(response) ==
    IF \/ response.net = "error"
       \/ response.status >= 400
       \/ ~response.json
       \/ response.body.t # "map"
       \/ "error" \in DOMAIN response.body.v
    THEN Raise("CTraderAccountError")
    ELSE Ok(response.body.v)

RECURSIVE _extract_account_list(_, _)
\* The first of keys whose value is iterable and no string: a list, or a
\* mapping, whose iteration gives its keys.
_extract_account_list(parsed, keys) ==
    IF keys = <<>> THEN Raise("CTraderAccountError")
    ELSE IF Get(parsed, Head(keys)).t = "list" THEN Ok(Get(parsed, Head(keys)).v)
    ELSE IF Get(parsed, Head(keys)).t = "map"
         THEN Ok([i \in 1..Cardinality(DOMAIN Get(parsed, Head(keys)).v) |-> Str("key", 0)])
    ELSE _extract_account_list(parsed, Tail(keys))

\* int(raw_account["ctidTraderAccountId"]): KeyError, TypeError and
\* ValueError become CTraderAccountError.
_build_trader_account(raw_account) ==
    IF raw_account.t # "map" THEN Raise("CTraderAccountError")
    ELSE LET value == Get(raw_account.v, "ctidTraderAccountId")
         IN  IF value.t = "num" \/ (value.t = "str" /\ value.fmt = "numeric")
             THEN Ok(Num(value.v))
             ELSE Raise("CTraderAccountError")

\* The ctid_trader_account_id of the accounts, in the order of the answer.
fetch_trading_accounts(token, response) ==
    IF ~Truthy(token) THEN Raise("ValueError")
    ELSE LET parsed == _call_ctrader_endpoint(response)
         IN  IF parsed.exc # "none" THEN parsed
             ELSE LET raw_accounts == _extract_account_list(
                          parsed.val, <<"accounts", "tradingAccounts", "traderAccounts",
                                        "traderAccountList">>)
                  IN  IF raw_accounts.exc # "none" THEN raw_accounts
                      ELSE IF \E i \in 1..Len(raw_accounts.val) :
                                  _build_trader_account(raw_accounts.val[i]).exc # "none"
                      THEN Raise("CTraderAccountError")
                      ELSE Ok([i \in 1..Len(raw_accounts.val) |->
                                  _build_trader_account(raw_accounts.val[i]).val])

\* The first account, or CTraderOAuthError with its message.
_fetch_primary_account(token, response) ==
    LET accounts == fetch_trading_accounts(token, response)
    IN  IF accounts.exc \in {"ValueError", "CTraderAccountError"}
        THEN [exc |-> "CTraderOAuthError",
              val |-> Str("Access token retrieved but trading account lookup failed", 0)]
        ELSE IF accounts.val = <<>>
        THEN [exc |-> "CTraderOAuthError",
              val |-> Str("Access token retrieved but no trading accounts were returned.", 0)]
        ELSE Ok(accounts.val[1])

\* The query strings of the callback.
Callbacks ==
    {Field("error", err) @@ Field("error_description", description)
         @@ Field("code", code) @@ Field("state", state_) :
        err \in {None, Str("empty", 0), Str("access_denied", 0)},
        description \in {None, Str("denied by the user", 0)},
        code \in {None, Str("empty", 0), Str("abc", 0)},
        state_ \in {None, Str("xyz", 0)}}

\* The answers of the token endpoint.
TokenResponses ==
    << Response("error", 0, FALSE, None),
       Response("ok", 400, TRUE, Map("error" :> Str("invalid_grant", 0))),
       Response("ok", 200, FALSE, None),
       Response("ok", 200, TRUE, List(<<>>)),
       Response("ok", 200, TRUE, Map(EmptyMap)),
       Response("ok", 200, TRUE, Map(("error" :> Str("invalid_grant", 0))
                                        @@ ("error_description" :> Str("code expired", 0)))),
       Response("ok", 200, TRUE, Map(("error" :> Str("invalid_grant", 0))
                                        @@ ("access_token" :> Str("tok", 0)))),
       Response("ok", 200, TRUE, Map(("error" :> Str("empty", 0))
                                        @@ ("access_token" :> Str("tok", 0)))),
       Response("ok", 200, TRUE, Map(("access_token" :> Str("tok", 0))
                                        @@ ("expires_in" :> Num(3600)))),
       Response("ok", 200, TRUE, Map(("access_token" :> Str("tok", 0))
                                        @@ ("expires_in" :> Str("bad", 0)))),
       Response("ok", 200, TRUE, Map("access_token" :> Str("tok", 0))),
       Response("ok", 200, TRUE, Map("access_token" :> Str("empty", 0))),
       Response("ok", 200, TRUE, Map("access_token" :> Num(5))) >>

\* The answers of GetTradingAccounts.
AccountResponses ==
    << Response("error", 0, FALSE, None),
       Response("ok", 401, TRUE, Map(EmptyMap)),
       Response("ok", 200, FALSE, None),
       Response("ok", 200, TRUE, List(<<>>)),
       Response("ok", 200, TRUE, Map(EmptyMap)),
       Response("ok", 200, TRUE, Map("error" :> Str("denied", 0))),
       Response("ok", 200, TRUE, Map("accounts" :> List(<<>>))),
       Response("ok", 200, TRUE, Map("accounts" :> Map("ctidTraderAccountId" :> Num(7)))),
       Response("ok", 200, TRUE, Map("accounts" :> List(<<Map(EmptyMap)>>))),
       Response("ok", 200, TRUE, Map("accounts" :> List(<<Num(7)>>))),
       Response("ok", 200, TRUE,
                Map("accounts" :> List(<<Map("ctidTraderAccountId" :> Num(7)),
                                         Map("ctidTraderAccountId" :> Str("bad", 0))>>))),
       Response("ok", 200, TRUE,
                Map("tradingAccounts" :> List(<<Map("ctidTraderAccountId" :> Num(7)),
                                                Map("ctidTraderAccountId" :> Num(8))>>))),
       Response("ok", 200, TRUE,
                Map("accounts" :> List(<<Map("ctidTraderAccountId" :> Str("numeric", 9))>>))),
       Response("ok", 200, TRUE,
                Map("accounts" :> List(<<Map("ctidTraderAccountId" :> Num(0))>>))) >>

\* The browser has come back from cTrader with a callback.
RedirectInit ==
    /\ variant = "ctrader_market_data"
    /\ access_token = ""
    /\ symbol = ""
    /\ endpoint = "redirect"
    /\ query \in Callbacks
    /\ rstep = "args"
    /\ status = 0
    /\ events = <<>>
    /\ payload = EmptyMap
    /\ RestIdle
    /\ pc = "none"
    /\ initial_bars = <<>>
    /\ seed_idx = 1
    /\ last_timestamp = None
    /\ reconnect_delay = 0
    /\ ws = "none"
    /\ frame = NoFrame
    /\ pending = <<>>
    /\ emitted = <<>>
    /\ sent = <<>>
    /\ error = "none"
    /\ nframes = 0
    /\ waits = <<>>
    /\ recovered = FALSE

\* A handler that goes on to the exchange although the callback reports an
\* error.
RedirectArgsIgnoresError ==
    /\ rstep = "args"
    /\ IF ~Truthy(Get(query, "code"))
       THEN /\ outcome' = Ok(_redirect_to_index(
                                None, None, None, Get(query, "state"),
                                Str("Missing 'code' query parameter in OAuth callback.", 0)))
            /\ status' = 302
            /\ rstep' = "done"
       ELSE /\ outcome' = outcome
            /\ status' = status
            /\ rstep' = "exchange"
    /\ UNCHANGED <<params, session, limit, rpc, upstream, http_requests, timeframe, http_log,
                   build_calls, endpoint, query, events, payload>>

\* The checks of the callback: an error parameter, then the code.
RedirectArgs ==
    /\ rstep = "args"
    /\ IF ~IsNone(Get(query, "error"))
       THEN /\ outcome' = Ok(_redirect_to_index(
                                None, None, None, Get(query, "state"),
                                _format_oauth_error(Get(query, "error"),
                                                    Get(query, "error_description"))))
            /\ status' = 302
            /\ rstep' = "done"
       ELSE IF ~Truthy(Get(query, "code"))
       THEN /\ outcome' = Ok(_redirect_to_index(
                                None, None, None, Get(query, "state"),
                                Str("Missing 'code' query parameter in OAuth callback.", 0)))
            /\ status' = 302
            /\ rstep' = "done"
       ELSE /\ outcome' = outcome
            /\ status' = status
            /\ rstep' = "exchange"
    /\ UNCHANGED <<params, session, limit, rpc, upstream, http_requests, timeframe, http_log,
                   build_calls, endpoint, query, events, payload>>

\* _exchange_authorisation_code: the credentials are loaded (or the file is
\* missing and the handler fails), the code is posted to the token endpoint,
\* and the access token of the answer is checked.
ExchangeCode ==
    /\ rstep = "exchange"
    /\ \/ /\ outcome' = Raise("FileNotFoundError")
          /\ status' = 500
          /\ rstep' = "done"
          /\ UNCHANGED <<upstream, http_requests, http_log, payload>>
       \/ \E r \in 1..Len(TokenResponses) :
            LET token_payload == _exchange_authorisation_code(TokenResponses[r])
                token == Get(token_payload.val, "access_token")
            IN  /\ upstream' = TokenResponses[r]
                /\ http_requests' = http_requests + 1
                /\ http_log' = Append(http_log, [path |-> <<"apps", "token">>,
                                                 code |-> query["code"]])
                /\ IF token_payload.exc # "none"
                   THEN /\ outcome' = Ok(_redirect_to_index(None, None, None,
                                                            Get(query, "state"),
                                                            token_payload.val))
                        /\ status' = 302
                        /\ rstep' = "done"
                        /\ payload' = payload
                   ELSE IF token.t # "str" \/ ~Truthy(token)
                   THEN /\ outcome' = Ok(_redirect_to_index(
                                            None, None, None, Get(query, "state"),
                                            Str("cTrader token response did not include an access token.", 0)))
                        /\ status' = 302
                        /\ rstep' = "done"
                        /\ payload' = token_payload.val
                   ELSE /\ outcome' = outcome
                        /\ status' = status
                        /\ rstep' = "lookup"
                        /\ payload' = token_payload.val
    /\ UNCHANGED <<params, session, limit, rpc, timeframe, build_calls, endpoint, query, events>>

\* _fetch_primary_account and the redirect that ends the handler.
LookupAccount ==
    /\ rstep = "lookup"
    /\ \E r \in 1..Len(AccountResponses) :
         LET token == payload["access_token"]
             expires_at == _compute_expiry_timestamp(Get(payload, "expires_in"))
             account == _fetch_primary_account(token, AccountResponses[r])
         IN  /\ upstream' = AccountResponses[r]
             /\ http_requests' = http_requests + 1
             /\ http_log' = Append(http_log, [path |-> <<"GetTradingAccounts">>,
                                              code |-> token])
             /\ outcome' = IF account.exc = "CTraderOAuthError"
                           THEN Ok(_redirect_to_index(token, expires_at, Str("empty", 0),
                                                      Get(query, "state"), account.val))
                           ELSE Ok(_redirect_to_index(token, expires_at, account.val,
                                                      Get(query, "state"), None))
    /\ status' = 302
    /\ rstep' = "done"
    /\ UNCHANGED <<params, session, limit, rpc, timeframe, build_calls, endpoint, query, events,
                   payload>>

RedirectNext == RedirectArgs \/ ExchangeCode \/ LookupAccount

RedirectSpec == RedirectInit /\ [][RedirectNext]_vars

(***************************************************************************)
(* Properties of the streaming session.                                    *)
(***************************************************************************)
\* The instant of a bar.
Ts(bar) == Instant(bar.timestamp)

\* The bar of instant k as build_bar returns it from SecBar(k).
Bar(k) == OHLCBar(DateTime("+00:00", InstantOf(k)), Num(10), Num(12), Num(9), Num(11), None)

\* The session is connected and past authentication.
Streaming == pc \in {"recv", "dispatch", "bars"}

\* The session is between two connections, or setting one up.
Reconnecting == pc \in {"sleep", "connect", "auth", "subscribe"}

HasWatermark == last_timestamp.t = "datetime"

\* The frame loop is about to take a bar that build_bar accepts.
TakesBar == pc = "bars" /\ build_bar(Head(pending)).exc = "none"

\* The payload of the subscribe frame of the current connection.
Subscription == sent[2]["payload"].v

\* C1: in a live session every bar decoded from an inbound frame is dropped,
\* leaving the watermark and the emitted sequence as they are, when a
\* watermark is set and the bar is not later than it; otherwise the bar is
\* emitted and its timestamp becomes the watermark.
C1_WatermarkFilter ==
    [][TakesBar =>
         LET bar == build_bar(Head(pending)).val
         IN  IF HasWatermark /\ Ts(bar) <= Instant(last_timestamp)
             THEN emitted' = emitted /\ last_timestamp' = last_timestamp
             ELSE emitted' = Append(emitted, bar) /\ last_timestamp' = bar.timestamp]_vars

\* A seed at instant 2, then a frame with the bars 1 and 3: bar 1 has been
\* dropped and bar 3 is next.
C1_Witness ==
    /\ pc = "bars"
    /\ frame = PairFrame(1, 3)
    /\ pending = <<SecBar(3)>>
    /\ initial_bars = <<Bar(2)>>
    /\ emitted = <<Bar(2)>>
    /\ last_timestamp = Bar(2).timestamp

\* C2: the bars a session emits, seed and live together and over all its
\* connections, are in non-decreasing order of timestamp (each bar is not
\* earlier than the one emitted before it).
C2_NonDecreasing ==
    \A i \in 1..(Len(emitted) - 1) : Ts(emitted[i]) <= Ts(emitted[i + 1])

\* One seed bar, a live bar emitted on an earlier connection (the current
\* subscription starts from it) and a live bar emitted on this one.
C2_Witness ==
    /\ pc = "recv"
    /\ Len(initial_bars) = 1
    /\ Len(emitted) = 3
    /\ Len(sent) >= 2
    /\ "from" \in DOMAIN Subscription
    /\ Subscription["from"].v = Ts(emitted[2])

\* C3: no two bars emitted in one session carry the same timestamp.
C3_NoDuplicateTimestamps ==
    \A i, j \in 1..Len(emitted) : i < j => Ts(emitted[i]) # Ts(emitted[j])

\* C4: a connection loss, the backoff wait and the reconnect leave the
\* watermark (and the emitted sequence) unchanged, and a bar delivered again
\* that is not later than an emitted bar is not emitted a second time.
C4_WatermarkSurvivesReconnect ==
    [][/\ (pc' = "sleep" \/ Reconnecting) =>
              last_timestamp' = last_timestamp /\ emitted' = emitted
       /\ (TakesBar /\ \E i \in 1..Len(emitted) :
                          Ts(build_bar(Head(pending)).val) <= Ts(emitted[i]))
              => emitted' = emitted]_vars

\* On a connection subscribed from the instant of a live bar (so made after
\* that bar was emitted), the same bar arrives again.
C4_Witness ==
    /\ pc = "bars"
    /\ Len(emitted) > Len(initial_bars)
    /\ "from" \in DOMAIN Subscription
    /\ Subscription["from"].v = Ts(emitted[Len(emitted)])
    /\ build_bar(Head(pending)).exc = "none"
    /\ Ts(build_bar(Head(pending)).val) = Ts(emitted[Len(emitted)])

\* C5: the emitted sequence is the seed followed by exactly those live bars
\* that are later than every bar emitted before them.
C5_SeedThenNewerBars ==
    [][/\ ~(pc' \in {"fetch", "seed", "error"}) =>
              SubSeq(emitted', 1, Len(initial_bars')) = initial_bars'
       /\ TakesBar =>
              LET bar == build_bar(Head(pending)).val
              IN  emitted' = IF \A i \in 1..Len(emitted) : Ts(bar) > Ts(emitted[i])
                             THEN Append(emitted, bar)
                             ELSE emitted
       /\ (~(pc \in {"fetch", "seed"}) /\ ~TakesBar) => emitted' = emitted]_vars

\* Seed [t1], then a first live frame with t1 and t2: the duplicate t1 has
\* been dropped and t2 has been emitted, the sequence is [t1, t2].
C5_Witness ==
    /\ initial_bars = <<Bar(1)>>
    /\ nframes = 1
    /\ frame = TripleFrame
    /\ pending = <<SecBar(1)>>
    /\ emitted = <<Bar(1), Bar(2)>>

\* C6: in a run of failed connection attempts the wait before the k-th
\* retry is min(2^(k-1), 30) seconds.
C6_BackoffSchedule ==
    \A k \in 1..Len(waits) : waits[k] = Min(2 ^ (k - 1), 30) /\ waits[k] <= 30

\* Seven waits in a row: 1, 2, 4, 8, 16, 30, 30.
C6_Witness == Len(waits) >= 7 /\ waits[6] = 30 /\ waits[7] = 30

\* C7: reconnect_delay is 1 second from the moment a connection has been
\* authenticated and subscribed, whatever it was before, and the first wait
\* after the loss of that connection is 1 second.
C7_DelayResetOnSuccess ==
    [][/\ Streaming' => reconnect_delay' = 1
       /\ (Streaming /\ pc' = "sleep") => reconnect_delay' = 1
       /\ (pc = "sleep" /\ waits = <<>>) => waits' = <<1>>]_vars

\* A connection made after the delay had grown beyond 1 second.
C7_Witness == pc = "recv" /\ recovered /\ reconnect_delay = 1

\* C8: the session fetches at most 100 history bars, emits each of them in
\* ascending order before the first connection, and ends seeding with the
\* watermark at the last seed bar, or unset when there is none.
C8_Seeding ==
    /\ Len(initial_bars) <= 100
    /\ pc = "seed" => emitted = SubSeq(initial_bars, 1, seed_idx - 1) /\ ws = "none"
    /\ (pc = "connect" /\ ws = "none" /\ waits = <<>>) =>
          /\ emitted = initial_bars
          /\ \A i \in 1..(Len(emitted) - 1) : Ts(emitted[i]) <= Ts(emitted[i + 1])
          /\ last_timestamp = IF emitted = <<>> THEN None
                              ELSE emitted[Len(emitted)].timestamp

\* The upstream answered with 101 bars; 100 have been emitted and the first
\* connection is about to be made.
C8_Witness ==
    /\ pc = "connect"
    /\ ws = "none"
    /\ waits = <<>>
    /\ Len(emitted) = 100
    /\ Ts(emitted[1]) = InstantOf(2)
    /\ HasWatermark

\* C9: on every connection the session sends one authenticate frame, then
\* one subscribeTrendbars frame, before it handles any inbound frame, and
\* the subscribe frame carries "from", equal to the watermark, exactly when
\* a watermark is set.
C9_AuthenticateThenSubscribe ==
    [][/\ Streaming' =>
            /\ Len(sent') >= 2
            /\ sent'[1]["type"].fmt = "authenticate"
            /\ sent'[2]["type"].fmt = "subscribeTrendbars"
            /\ \A i \in 3..Len(sent') :
                  ~(sent'[i]["type"].fmt \in {"authenticate", "subscribeTrendbars"})
       /\ (pc = "subscribe") =>
            /\ Len(sent') = 2
            /\ ("from" \in DOMAIN sent'[2]["payload"].v) <=> HasWatermark
            /\ HasWatermark =>
                  LET from == parse_timestamp(sent'[2]["payload"].v["from"])
                  IN  from.exc = "none" /\ Instant(from.val) = Instant(last_timestamp)]_vars

\* A frame is being handled on a reconnection whose subscription names the
\* watermark, a datetime with an offset other than UTC.
C9_Witness ==
    /\ pc = "dispatch"
    /\ Len(sent) = 2
    /\ "from" \in DOMAIN Subscription
    /\ last_timestamp.fmt = "+01:00"
    /\ Subscription["from"].v = Instant(last_timestamp)

\* The frame being handled is a ping or a heartbeat.
IsPing ==
    /\ pc = "dispatch"
    /\ frame.kind \in {"text", "mapping"}
    /\ frame.json = "object"
    /\ "type" \in DOMAIN frame.msg
    /\ frame.msg["type"].fmt \in {"ping", "heartbeat"}

\* C10: for a ping or heartbeat frame the session sends exactly one pong
\* that echoes the frame's payload (and has none when the frame has none),
\* emits no bar and leaves the watermark alone, bar-shaped data or not.
C10_PongEchoesPayload ==
    [][IsPing =>
         /\ Len(sent') = Len(sent) + 1
         /\ SubSeq(sent', 1, Len(sent)) = sent
         /\ LET pong == sent'[Len(sent')]
            IN  /\ pong["type"].fmt = "pong"
                /\ DOMAIN pong = {"type"} \cup (DOMAIN frame.msg \cap {"payload"})
                /\ "payload" \in DOMAIN frame.msg => pong["payload"] = frame.msg["payload"]
         /\ emitted' = emitted
         /\ last_timestamp' = last_timestamp
         /\ pending' = <<>>
         /\ pc' # "bars"]_vars

\* A heartbeat whose payload holds a bar has been answered with a pong that
\* carries that payload, and no bar has been emitted.
C10_Witness ==
    /\ pc = "recv"
    /\ nframes = 1
    /\ Len(sent) = 3
    /\ sent[3]["type"].fmt = "pong"
    /\ "payload" \in DOMAIN sent[3]
    /\ sent[3]["payload"] = Map(SecBar(MaxTs))
    /\ emitted = <<>>
    /\ ~HasWatermark

\* The frame being handled is a control acknowledgement.
IsControl ==
    /\ pc = "dispatch"
    /\ frame.kind \in {"text", "mapping"}
    /\ frame.json = "object"
    /\ "type" \in DOMAIN frame.msg
    /\ frame.msg["type"].fmt \in {"authenticated", "subscriptionConfirmed", "info"}

\* C11: a frame of type authenticated, subscriptionConfirmed or info changes
\* nothing, whatever its payload: no bar is emitted, no frame is sent, the
\* watermark and reconnect_delay stay as they are, the connection stays open
\* and the session waits for the next frame.
C11_ControlFrameIsInert ==
    [][IsControl =>
         /\ emitted' = emitted
         /\ sent' = sent
         /\ last_timestamp' = last_timestamp
         /\ reconnect_delay' = reconnect_delay
         /\ ws' = "open"
         /\ pending' = <<>>
         /\ pc' = "recv"]_vars

\* A subscriptionConfirmed frame whose payload holds a bar is being handled
\* by a session that has emitted nothing yet.
C11_Witness ==
    /\ IsControl
    /\ frame = TypedFrame("subscriptionConfirmed",
                          Map(("trendbars" :> List(MapList(<<SecBar(MaxTs)>>)))))
    /\ ws = "open"
    /\ emitted = <<>>

\* The frame being handled is not valid JSON, not a JSON object or not text.
Undecodable ==
    /\ pc = "dispatch"
    /\ frame.kind # "mapping"
    /\ ~(frame.kind = "text" /\ frame.json = "object")

\* The frame being handled is a JSON object of no special type in which no
\* bar is found: it has no payload or data, or a payload that bears no bar.
Barless ==
    /\ pc = "dispatch"
    /\ Dispatch(frame).do = "data"
    /\ BarsPayload(frame.msg).bars = <<>>

\* C12 as claimed: a frame whose payload cannot be located or decoded is
\* skipped, no bar is emitted, the connection stays open and the session goes
\* on to the next frame of the same connection.
C12_UnreadableFrameSkipped ==
    [][(Undecodable \/ Barless) =>
         emitted' = emitted /\ ws' = "open" /\ pc' = "recv"]_vars

\* C12 as amended: a frame in which no bar is found is skipped; a frame that
\* cannot be decoded emits nothing, ends the connection and sends the session
\* to the backoff wait, without ending the session.
C12_BarlessSkippedUndecodableReconnects ==
    [][/\ Barless =>
            /\ emitted' = emitted /\ sent' = sent /\ last_timestamp' = last_timestamp
            /\ ws' = "open" /\ pc' = "recv"
       /\ Undecodable =>
            /\ emitted' = emitted /\ sent' = sent /\ last_timestamp' = last_timestamp
            /\ ws' = "closed" /\ pc' = "sleep" /\ error' = "none"]_vars

\* Text that is not JSON arrives as the second frame of a connection whose
\* first frame was handled without a reply.
C12_Witness ==
    /\ Undecodable
    /\ frame = RawFrame("text", "invalid", EmptyMap)
    /\ nframes = 2
    /\ Len(sent) = 2
    /\ ws = "open"

\* The frame loop is about to take a bar payload that build_bar rejects.
RejectsBar == pc = "bars" /\ build_bar(Head(pending)).exc # "none"

\* C13: a bar payload that cannot be normalized is not skipped: nothing is
\* emitted from it or from the rest of its frame, the connection is
\* abandoned and the session goes to the backoff wait, from which it goes on
\* to connect again; the session does not end.  (For the single-file
\* implementation the payloads are those build_bar rejects with the
\* malformed-bar error.)
C13_MalformedBarReconnects ==
    [][/\ (RejectsBar /\ (variant = "streaming"
                          \/ build_bar(Head(pending)).exc = "CTraderMarketDataError")) =>
            /\ emitted' = emitted
            /\ last_timestamp' = last_timestamp
            /\ pending' = <<>>
            /\ ws' = "closed"
            /\ pc' = "sleep"
            /\ error' = "none"
       /\ pc = "sleep" =>
            /\ pc' = "connect"
            /\ waits' = Append(waits, reconnect_delay)
            /\ error' = "none"]_vars

\* A frame whose only bar lacks the close price is being handled.
C13_Witness ==
    /\ RejectsBar
    /\ frame = TrendbarsFrame(<<NoCloseBar>>)
    /\ pending = <<NoCloseBar>>
    /\ ws = "open"

\* C14: once seeding has completed no failure of the upstream connection
\* ends the session: a step that attempts the connection, sends a frame
\* (authenticate, subscribe, pong) or waits for a frame never takes the
\* session to a terminal state.
C14_ConnectionFailureNeverTerminal ==
    [][(pc \in {"connect", "auth", "subscribe", "recv"} \/ IsPing) => pc' # "error"]_vars

\* C15 as claimed: an upstream error before any connection has been
\* established is terminal, so a session that has never had a connection is
\* never in the backoff wait.
C15_NoBackoffBeforeFirstConnection ==
    ws = "none" => (pc # "sleep" /\ waits = <<>>)

\* C15 as amended: a failed history fetch is terminal (the session ends with
\* the error, without a bar, a connection or a wait, and takes no further
\* step); a failed connection attempt sends the session to the backoff wait
\* on the first attempt as on any later one, the one exception being an
\* error that is no transport error or timeout in the single-file
\* implementation.
C15_FetchFailureTerminalConnectFailureRetried ==
    [][/\ (pc = "fetch" /\ pc' # "seed") =>
            /\ pc' = "error" /\ error' # "none"
            /\ emitted' = <<>> /\ ws' = "none" /\ waits' = <<>>
       /\ pc = "error" => vars' = vars
       /\ (pc = "connect" /\ ws' # "open") =>
            \/ pc' = "sleep" /\ error' = "none"
            \/ pc' = "error" /\ error' = "Exception" /\ variant # "streaming"]_vars

\* Two connection attempts have failed and a third is about to be made, and
\* the session has never had a connection.
C15_Witness ==
    /\ ws = "none"
    /\ pc = "connect"
    /\ Len(waits) = 2
    /\ error = "none"

Returned == rpc = "done" /\ outcome.exc = "none"

\* C18: fetch_ohlc_data never returns more than min(limit, 500) bars.
C18_AtMostMinLimit500 ==
    Returned => Len(outcome.val) <= Min(limit, DocumentedMaxLimit)

\* The bars the upstream sent, normalised, in the order it sent them.
Upstream ==
    LET bars == BuildBars(_extract_trendbars(upstream.body).val).val
    IN  SubSeq(bars, 1, Len(bars))

\* The instants of the bars of s.
Instants(s) == SubSeq([i \in 1..Len(s) |-> Ts(s[i])], 1, Len(s))

\* The number of the instants ts that are later than t.
Later(ts, t) == Cardinality({i \in 1..Len(ts) : ts[i] > t})

\* The upstream sent three bars t1 < t2 < t3, the newest first.
ThreeBars ==
    upstream.body = Map(("bars" :> List(MapList(<<SecBar(MaxTs), SecBar(1), SecBar(2)>>))))

\* C19: whatever the upstream sent, in whatever order, a call that returns
\* gives bars the upstream sent, as many as it sent but at most limit, the
\* ones with the greatest timestamps (for every instant, as many returned
\* bars lie after it as the upstream sent, up to limit), oldest first; of
\* three bars t1 < t2 < t3 and limit 2 it gives exactly [bar(t2), bar(t3)].
C19_NewestLimitAscending ==
    Returned =>
        LET sent_bars == Upstream
            sent_at == Instants(sent_bars)
            returned_at == Instants(outcome.val)
        IN  /\ Len(outcome.val) = Min(limit, Len(sent_bars))
            /\ \A i \in 1..(Len(returned_at) - 1) : returned_at[i] <= returned_at[i + 1]
            /\ \A i \in 1..Len(outcome.val) :
                  \E j \in 1..Len(sent_bars) : outcome.val[i] = sent_bars[j]
            /\ \A j \in 1..Len(sent_at) :
                  Later(returned_at, sent_at[j]) = Min(limit, Later(sent_at, sent_at[j]))
            /\ (ThreeBars /\ limit = 2) => outcome.val = <<Bar(2), Bar(MaxTs)>>

C19_Witness ==
    /\ Returned
    /\ ThreeBars
    /\ limit = 2
    /\ outcome.val = <<Bar(2), Bar(MaxTs)>>

\* The call was made with an argument the function refuses.
InvalidArguments == limit <= 0 \/ access_token = "" \/ symbol = ""

\* C20: a call with limit <= 0, an empty access token or an empty symbol
\* ends with ValueError and has issued no HTTP request.
C20_InvalidArgumentBeforeNetwork ==
    (InvalidArguments /\ rpc # "start") =>
        /\ rpc = "done"
        /\ outcome = Raise("ValueError")
        /\ http_requests = 0
        /\ upstream = NoResponse

C20_Witness ==
    /\ rpc = "done"
    /\ limit = 0
    /\ access_token # ""
    /\ symbol # ""
    /\ outcome = Raise("ValueError")
    /\ http_requests = 0

\* C21: a timeframe is accepted in any letter case and every request carries
\* it upper-cased; a call whose timeframe is outside M1, M5, M15, M30, H1,
\* H4, D1, W1, MN1 ends with ValueError and issues no request.
C21_TimeframeValidated ==
    LET codes == { <<"M", "1">>, <<"M", "5">>, <<"M", "1", "5">>, <<"M", "3", "0">>,
                   <<"H", "1">>, <<"H", "4">>, <<"D", "1">>, <<"W", "1">>,
                   <<"M", "N", "1">> }
    IN  /\ \A i \in 1..Len(http_log) : http_log[i].timeframe = Upper(timeframe)
        /\ (rpc # "start" /\ Upper(timeframe) \notin codes) =>
                /\ rpc = "done"
                /\ outcome = Raise("ValueError")
                /\ http_requests = 0

\* The upstream answered with a JSON object that has no list under data,
\* trendbars, bars, items or trendbar and lacks the four price keys of a bar.
NoBarList ==
    /\ upstream.net = "ok"
    /\ upstream.status < 400
    /\ upstream.json
    /\ upstream.body.t = "map"
    /\ \A key \in {"data", "trendbars", "bars", "items", "trendbar"} :
          Get(upstream.body.v, key).t # "list"
    /\ ~({"open", "high", "low", "close"} \subseteq DOMAIN upstream.body.v)
    /\ ~({"openPrice", "highPrice", "lowPrice", "closePrice"} \subseteq DOMAIN upstream.body.v)

\* C22: a call answered with a JSON object without a bar list under any
\* accepted key, and not bar-shaped itself, ends with CTraderMarketDataError
\* and has not called build_bar.
C22_MissingBarListIsUpstreamError ==
    (rpc = "done" /\ NoBarList) =>
        /\ outcome = Raise("CTraderMarketDataError")
        /\ build_calls = 0

C22_Witness ==
    /\ rpc = "done"
    /\ upstream = NestedResponse
    /\ outcome = Raise("CTraderMarketDataError")
    /\ build_calls = 0

\* C23: a call whose request failed in transport, or was answered with a
\* status >= 400, with a body that is not JSON, or with a JSON object that
\* carries an error field, ends with CTraderMarketDataError.
C23_ErrorResponseIsUpstreamError ==
    (/\ rpc = "done"
     /\ http_requests = 1
     /\ \/ upstream.net = "error"
        \/ upstream.status >= 400
        \/ ~upstream.json
        \/ upstream.body.t = "map" /\ "error" \in DOMAIN upstream.body.v)
        => outcome = Raise("CTraderMarketDataError")

\* C24: a call issues at most one HTTP request, and only while it has met
\* no error; the first error it meets, at whatever stage, ends the call,
\* and a call that has ended takes no further step.
C24_NoRetry ==
    [][/\ rpc # "done"
       /\ http_requests' <= 1
       /\ Len(http_log') = http_requests'
       /\ http_requests' > http_requests => outcome = NoResult
       /\ outcome' # NoResult => rpc' = "done"]_vars

C24_Witness ==
    /\ rpc = "done"
    /\ upstream.net = "error"
    /\ http_requests = 1
    /\ outcome = Raise("CTraderMarketDataError")

\* C25: fetch_ohlc_data takes a symbol name and no symbolId, so each of its
\* bar-history requests is preceded by a symbol-lookup request: a request
\* of the same call, made earlier, to another resource than the trendbars.
C25_LookupPrecedesBars ==
    \A i \in 1..Len(http_log) :
        http_log[i].path[Len(http_log[i].path)] = "trendbars" =>
            \E j \in 1..(i - 1) : http_log[j].path[Len(http_log[j].path)] # "trendbars"

(***************************************************************************)
(* Properties of the routes.                                               *)
(***************************************************************************)
\* The request carries access_token and an integer account_id.
Identified == ~IsNone(query.access_token) /\ ~IsNone(IntArg(query.account_id))

\* C26: a GET /ohlc request that carries access_token and account_id is
\* answered with 200, 400 or 502, and the call of fetch_ohlc_data it makes
\* either returns (200), raises ValueError (400) or raises
\* CTraderMarketDataError (502), nothing else.
C26_ThreeOutcomes ==
    (endpoint = "ohlc" /\ rstep = "done" /\ Identified) =>
        /\ status \in {200, 400, 502}
        /\ outcome # NoResult =>
              \/ outcome.exc = "none" /\ status = 200
              \/ outcome.exc = "ValueError" /\ status = 400
              \/ outcome.exc = "CTraderMarketDataError" /\ status = 502

\* C27: once the generator of GET /ohlc-stream has run, the stream is one
\* error event and nothing else, or one meta event, one bar event for each
\* fetched bar, in order and as many as the meta count says, and then one
\* complete event.
C27_StreamShape ==
    (endpoint = "ohlc-stream" /\ rstep \in {"done", "aborted"} /\ outcome # NoResult) =>
        LET n == Len(events)
        IN  \/ /\ outcome.exc \in {"ValueError", "CTraderMarketDataError"}
               /\ n = 1
               /\ events[1].event = "error"
            \/ /\ outcome.exc = "none"
               /\ n = Len(outcome.val) + 2
               /\ events[1].event = "meta"
               /\ events[1].count = Len(outcome.val)
               /\ \A i \in 2..(n - 1) :
                     events[i].event = "bar" /\ events[i].bar = outcome.val[i - 1]
               /\ events[n].event = "complete"

\* The text is given and is no ISO-8601 timestamp with a timezone.
BadTime(value) == value.t = "str" /\ value.fmt \notin {"empty", "Z", "+00:00", "+01:00"}

\* C28: a request to either route without access_token, without an integer
\* account_id, or with a start or end that cannot be parsed or has no
\* timezone, is answered with 400; no call of fetch_ohlc_data and no
\* upstream request is made for it and no event is written.
C28_BadRequestRejected ==
    (rstep # "args" /\ (~Identified \/ BadTime(query.start) \/ BadTime(query.end))) =>
        /\ rstep = "done"
        /\ status = 400
        /\ outcome = NoResult
        /\ http_requests = 0
        /\ events = <<>>

C28_Witness ==
    /\ endpoint = "ohlc-stream"
    /\ Identified
    /\ query.start = Str("Z", InstantOf(1))
    /\ query.end = Str("naive", InstantOf(1))
    /\ rstep = "done"
    /\ status = 400
    /\ http_requests = 0

(***************************************************************************)
(* Properties of build_bar.                                                *)
(***************************************************************************)
\* The value the mapping carries under the first of keys it has.
Carried(raw, keys) ==
    IF \E i \in 1..Len(keys) : keys[i] \in DOMAIN raw
    THEN raw[keys[CHOOSE i \in 1..Len(keys) :
                    keys[i] \in DOMAIN raw /\ \A j \in 1..(i - 1) : keys[j] \notin DOMAIN raw]]
    ELSE None

\* The values of the payload, whatever names it uses for them.
PayloadFields ==
    [timestamp |-> Carried(payload, <<"timestamp", "time", "openTimestamp", "startTimestamp",
                                      "utcTimestamp">>),
     open |-> Carried(payload, <<"open", "openPrice">>),
     high |-> Carried(payload, <<"high", "highPrice">>),
     low |-> Carried(payload, <<"low", "lowPrice">>),
     close |-> Carried(payload, <<"close", "closePrice">>),
     volume |-> Get(payload, "volume")]

\* The value is a number or the decimal text of one.
Numeric(value) == value.t = "num" \/ (value.t = "str" /\ value.fmt = "numeric")

\* The value is an epoch number within the range of datetime or an
\* ISO-8601 text.
Timely(value) ==
    \/ value.t = "num" /\ (value.v > MsThresholdK \/ value.v <= MaxEpochK)
    \/ value.t = "str" /\ value.fmt \in {"Z", "+00:00", "+01:00", "naive"}

\* C29: for a payload that carries a timestamp and four numeric prices,
\* build_bar gives the same result as for the same values with the
\* timestamp under any of the five timestamp keys and the prices under the
\* primary names or under the Price names.
C29_AliasIndependent ==
    (/\ outcome # NoResult
     /\ Timely(PayloadFields.timestamp)
     /\ Numeric(PayloadFields.open) /\ Numeric(PayloadFields.high)
     /\ Numeric(PayloadFields.low) /\ Numeric(PayloadFields.close))
        => \A key \in TimestampKeys, aliased \in BOOLEAN :
              build_bar(Encode(PayloadFields, key, aliased)) = outcome

\* C30: build_bar raises CTraderMarketDataError for a payload without a
\* timestamp key, for one that lacks one of the four prices under both of
\* its names and for one whose timestamp is neither a number nor an
\* ISO-8601 text, and every bar it returns has its four prices.
C30_NeverDefaults ==
    outcome # NoResult =>
        /\ (\/ TimestampKeys \cap DOMAIN payload = {}
            \/ \E name \in {"open", "high", "low", "close"} :
                  {name, name \o "Price"} \cap DOMAIN payload = {}
            \/ ~(PayloadFields.timestamp.t = "num" \/ Timely(PayloadFields.timestamp)))
                => outcome = Raise("CTraderMarketDataError")
        /\ outcome.exc = "none" =>
              \A price \in {outcome.val.open, outcome.val.high, outcome.val.low,
                             outcome.val.close} : price.t = "num"

\* C31: for a payload whose timestamp is a number t with t * 1000 > 1e12,
\* parse_timestamp gives for t * 1000 and for t the same instant.
C31_MillisecondsSameInstant ==
    LET t == PayloadFields.timestamp
    IN  (outcome # NoResult /\ t.t = "num" /\ t.v > MsThresholdK \div 1000) =>
            /\ parse_timestamp(t).exc = "none"
            /\ parse_timestamp(Big(t.v)).exc = "none"
            /\ Instant(parse_timestamp(Big(t.v)).val) = Instant(parse_timestamp(t).val)

\* C31, amended: a number above 1e12 is read as milliseconds, one up to
\* and including 1e12 as seconds, and a number of seconds beyond the range
\* of datetime raises; for t within that range with t * 1000 > 1e12,
\* parse_timestamp gives for t * 1000 and for t the same instant.
C31_SameInstantWithinRange ==
    LET t == PayloadFields.timestamp
        read == parse_timestamp(t)
    IN  (outcome # NoResult /\ t.t = "num") =>
            /\ t.v > MsThresholdK => read.exc = "none" /\ Instant(read.val) = t.v
            /\ (t.v <= MsThresholdK /\ t.v <= MaxEpochK) =>
                  read.exc = "none" /\ Instant(read.val) = 1000 * t.v
            /\ (t.v <= MsThresholdK /\ t.v > MaxEpochK) =>
                  read.exc \notin {"none", "CTraderMarketDataError"}
            /\ (t.v > MsThresholdK \div 1000 /\ t.v <= MaxEpochK) =>
                  /\ parse_timestamp(Big(t.v)).exc = "none"
                  /\ Instant(parse_timestamp(Big(t.v)).val) = Instant(read.val)

C31_Witness ==
    /\ outcome.exc = "none"
    /\ PayloadFields.timestamp = Num(T0K + 1)
    /\ parse_timestamp(Big(T0K + 1)) = Ok(outcome.val.timestamp)
    /\ Instant(outcome.val.timestamp) = InstantOf(1)

\* C32: a payload whose volume is present and is no number gives what the
\* payload without the volume field gives, a bar without volume or the same
\* error, whereas a payload with a price that is present and is no number
\* gives no bar.
C32_VolumeTolerated ==
    outcome # NoResult =>
        /\ ("volume" \in DOMAIN payload /\ ~Numeric(payload["volume"])) =>
              /\ outcome = build_bar([k \in DOMAIN payload \ {"volume"} |-> payload[k]])
              /\ outcome.exc = "none" => outcome.val.volume = None
        /\ (\E price \in {PayloadFields.open, PayloadFields.high, PayloadFields.low,
                           PayloadFields.close} : ~IsNone(price) /\ ~Numeric(price))
              => outcome.exc # "none"

C32_Witness ==
    /\ outcome.exc = "none"
    /\ Get(payload, "volume") = Str("bad", 0)
    /\ outcome.val.volume = None
    /\ outcome.val.close = Num(10)

\* Properties of the watermark and of the reconnect loop.

\* C33: while the session is connecting, streaming or reconnecting, the
\* watermark is the timestamp of the bar emitted last, and it is unset
\* exactly when no bar has been emitted.
C33_WatermarkIsLastEmitted ==
    (Streaming \/ Reconnecting) =>
        IF emitted = <<>>
        THEN ~HasWatermark
        ELSE last_timestamp = emitted[Len(emitted)].timestamp

\* A session waits to reconnect after it emitted a bar taken from a frame.
C33_Witness ==
    /\ pc = "sleep"
    /\ Len(emitted) > Len(initial_bars)
    /\ last_timestamp = emitted[Len(emitted)].timestamp

\* C34: every end of a connection (the frame iteration stops, a send or a
\* receive fails, a frame or a bar is rejected) takes the session to the
\* backoff wait and leaves it running; from the wait the session sleeps
\* reconnect_delay once and goes to the next connection attempt; a connection
\* attempt is only ever reached from the end of seeding or from a wait.  For
\* the single-file implementation the ends are those its loop handles: the
\* transport errors and CTraderMarketDataError.
C34_EndThenOneWaitThenAttempt ==
    [][ LET raised == IF pc = "bars" THEN build_bar(Head(pending)).exc
                      ELSE IF pc = "dispatch" THEN Dispatch(frame).exc
                      ELSE "none"
        IN  /\ ( /\ ws = "open"
                 /\ ws' # "open"
                 /\ \/ variant = "streaming"
                    \/ raised \in {"none", "ConnectionClosed", "CTraderMarketDataError"} )
               => (pc' = "sleep" /\ error' = error /\ waits' = waits)
            /\ pc = "sleep" =>
                  /\ pc' = "connect"
                  /\ waits' = Append(waits, reconnect_delay)
                  /\ ws' = ws
            /\ (pc' = "connect" /\ pc # "connect") => pc \in {"seed", "sleep"}
            /\ pc = "connect" => pc' # "connect"
      ]_vars

\* A connection that delivered a frame has ended, the session has waited and
\* is about to connect again.
C34_Witness ==
    /\ pc = "connect"
    /\ ws = "closed"
    /\ nframes >= 1
    /\ waits = <<1>>

\* C35: once the session has entered its reconnect loop, reconnect_delay is
\* one of 1, 2, 4, 8, 16, 30 seconds, and every backoff wait lies between 1
\* and 30 seconds.
C35_DelayValues ==
    (Streaming \/ Reconnecting \/ (pc = "error" /\ ws # "none")) =>
        /\ reconnect_delay \in {1, 2, 4, 8, 16, _MAX_RECONNECT_DELAY}
        /\ \A k \in 1..Len(waits) : waits[k] >= 1 /\ waits[k] <= _MAX_RECONNECT_DELAY

\* The delay has reached the ceiling by doubling and the session has slept
\* 16 seconds.
C35_Witness ==
    /\ pc = "connect"
    /\ reconnect_delay = _MAX_RECONNECT_DELAY
    /\ Len(waits) = 5
    /\ waits[5] = 16

\* C36: the watermark never decreases: once it is set, every step leaves it
\* set, at an instant that is not earlier than the one it had.
C36_WatermarkNeverDecreases ==
    [][ HasWatermark =>
            /\ last_timestamp'.t = "datetime"
            /\ Instant(last_timestamp') >= Instant(last_timestamp) ]_vars

\* C37: when build_bar rejects a bar of a frame of several bars, every bar
\* that precedes it in the frame has passed the watermark test (it was
\* emitted and moved the watermark, or it was not later than the watermark),
\* so the watermark and an emitted bar are at or beyond it; the step that
\* rejects the bar emits nothing, drops the rest of the frame and leaves the
\* watermark alone; and a bar taken from a frame, on this connection or on a
\* later one, is emitted only if it is later than every bar emitted before.
C37_PartialFrame ==
    [][ LET all  == BarsPayload(frame.msg).bars
            done == Len(all) - Len(pending)
        IN  /\ RejectsBar =>
                 /\ \A k \in 1..done :
                      LET bar == build_bar(all[k])
                      IN  /\ bar.exc = "none"
                          /\ HasWatermark
                          /\ Ts(bar.val) <= Instant(last_timestamp)
                          /\ \E i \in 1..Len(emitted) : Ts(emitted[i]) >= Ts(bar.val)
                 /\ emitted' = emitted
                 /\ last_timestamp' = last_timestamp
                 /\ pending' = <<>>
                 /\ frame' = NoFrame
                 /\ ws' = "closed"
            /\ (pc = "bars" /\ emitted' # emitted) =>
                 /\ Len(emitted') = Len(emitted) + 1
                 /\ SubSeq(emitted', 1, Len(emitted)) = emitted
                 /\ \A i \in 1..Len(emitted) : Ts(emitted[i]) < Ts(emitted'[Len(emitted')])
                 /\ last_timestamp' = emitted'[Len(emitted')].timestamp
      ]_vars

\* After a reconnect the frame of three bars whose second bar has no
\* timestamp arrives again: its first bar, emitted before the reconnect, was
\* discarded this time, and the second bar is about to be rejected.
C37_Witness ==
    /\ RejectsBar
    /\ recovered
    /\ nframes = 2
    /\ frame = MalformedFrames[1]
    /\ Len(pending) = 2
    /\ emitted = <<Bar(1)>>

\* C38: the two implementations are equivalent.  What the equivalence
\* requires of every step of a session: when the session ends with an
\* exception raised inside its reconnect loop, the other implementation does
\* not catch that exception either; and when an exception raised by a frame
\* or by a bar sends the session to the backoff wait, the other
\* implementation catches it too.
C38_ImplementationsEquivalent ==
    [][ LET other  == IF variant = "streaming" THEN "ctrader_market_data" ELSE "streaming"
            raised == IF pc = "bars" THEN build_bar(Head(pending)).exc
                      ELSE IF pc = "dispatch" THEN Dispatch(frame).exc
                      ELSE "none"
        IN  /\ (error = "none" /\ error' # "none" /\ pc # "fetch") => ~Caught(other, error')
            /\ (pc' = "sleep" /\ raised # "none") => Caught(other, raised)
      ]_vars

\* C39: for a payload that carries "timestamp", "open", "high", "low" and
\* "close" with numeric values, zero included, build_bar returns a bar with
\* exactly those prices at the instant the timestamp denotes.
C39_PrimaryValuesExact ==
    (/\ outcome # NoResult
     /\ {"timestamp", "open", "high", "low", "close"} \subseteq DOMAIN payload
     /\ \A key \in {"timestamp", "open", "high", "low", "close"} : payload[key].t = "num")
        => /\ outcome.exc = "none"
           /\ outcome.val.open = payload["open"]
           /\ outcome.val.high = payload["high"]
           /\ outcome.val.low = payload["low"]
           /\ outcome.val.close = payload["close"]
           /\ Instant(outcome.val.timestamp) =
                 IF payload["timestamp"].v > MsThresholdK
                 THEN payload["timestamp"].v
                 ELSE 1000 * payload["timestamp"].v

\* Properties of the OAuth callback.

\* C40: when the callback carries an error parameter or no code, the token
\* endpoint is not contacted; the redirect to the index page carries an
\* access token only when the token endpoint answered with a payload whose
\* access_token is a non-empty string, and then carries that token; and
\* when the account lookup fails after such an exchange, the redirect
\* carries the token, an error message and an empty account id.
C40_TokenOnlyAfterExchange ==
    LET contacted == \E i \in 1..Len(http_log) : http_log[i].path = <<"apps", "token">>
        exchanged == /\ contacted
                     /\ Get(payload, "access_token").t = "str"
                     /\ Get(payload, "access_token").fmt # "empty"
        redirected == rstep = "done" /\ status = 302
    IN  /\ ("error" \in DOMAIN query \/ "code" \notin DOMAIN query
                \/ query["code"] = Str("empty", 0))
            => (~contacted /\ http_log = <<>> /\ rstep \in {"args", "done"})
        /\ (redirected /\ "ctrader_access_token" \in DOMAIN outcome.val)
            => (exchanged /\ outcome.val["ctrader_access_token"] = payload["access_token"])
        /\ (redirected /\ exchanged /\ Len(http_log) = 2
                /\ LET accounts == fetch_trading_accounts(payload["access_token"], upstream)
                   IN  accounts.exc # "none" \/ Len(accounts.val) = 0)
            => /\ outcome.val["ctrader_access_token"] = payload["access_token"]
               /\ "error" \in DOMAIN outcome.val
               /\ outcome.val["error"].fmt # "empty"
               /\ outcome.val["ctrader_account_id"] = Str("empty", 0)

\* The exchange gave a token, the account lookup was refused, and the
\* browser is sent back with the token.
C40_Witness ==
    /\ rstep = "done"
    /\ Len(http_log) = 2
    /\ upstream = AccountResponses[2]
    /\ "ctrader_access_token" \in DOMAIN outcome.val
    /\ "error" \in DOMAIN outcome.val

====
